---------------------------- MODULE Spec2Model ----------------------------
(***************************************************************************)
(* A model of the TOML parser and serializer of this repository            *)
(* (src/unnamed/part_000 is the parser, src/mod.js holds the serializer).  *)
(*                                                                         *)
(* Text is a sequence of UTF-16 code units (integers); the scanner's       *)
(* position is the 0-based index of the code.  A parser function is an     *)
(* operator P(src, pos) that returns what the call did: st is "ok"         *)
(* (success(body)), "fail" (failure()) or "throw" (an exception, err), and *)
(* pos is the scanner's position when the call ended.                      *)
(***************************************************************************)
EXTENDS Integers, Sequences, FiniteSets, TLC

VARIABLES
  timezone,   \* the host: what Date.prototype.getTimezoneOffset returns
  source,     \* Scanner.source: the text given to parse
  position,   \* Scanner.#position when the last call ended
  pc,         \* what was called last
  parsed,     \* what the last parser function or scanner method did
  outcome,    \* what the last call of parse did: a value, or an error
  srcObject,  \* Dumper.srcObject: the value parse returned, given to stringify
  fmtOptions, \* fmtOptions.keyAlignment of the call of stringify
  output,     \* the text stringify returned
  tomlBlocks, \* Toml: blocks.body, the declarations that repeat(...) returned
  tomlIndex,  \* Toml: how many of them the for loop has folded
  tomlBody    \* Toml: body, the mapping the for loop builds

(***************************************************************************)
(* Characters                                                              *)
(***************************************************************************)
\* The printable ASCII characters, code units 32 to 126, in order (the grave
\* accent, 96, is spelled out).
Printable ==
  << " ", "!", "\"", "#", "$", "%", "&", "'", "(", ")", "*", "+", ",", "-", ".", "/",
     "0", "1", "2", "3", "4", "5", "6", "7", "8", "9", ":", ";", "<", "=", ">", "?",
     "@", "A", "B", "C", "D", "E", "F", "G", "H", "I", "J", "K", "L", "M", "N", "O",
     "P", "Q", "R", "S", "T", "U", "V", "W", "X", "Y", "Z", "[", "\\", "]", "^", "_",
     "GRAVE", "a", "b", "c", "d", "e", "f", "g", "h", "i", "j", "k", "l", "m", "n", "o",
     "p", "q", "r", "s", "t", "u", "v", "w", "x", "y", "z", "{", "|", "}", "~" >>

\* The code unit of a one-character string.
Ord(ch) ==
  CASE ch = "\t" -> 9
    [] ch = "\n" -> 10
    [] ch = "\f" -> 12
    [] ch = "\r" -> 13
    [] OTHER -> 31 + (CHOOSE i \in 1..Len(Printable) : Printable[i] = ch)

\* The text of a sequence of one-character strings.
Text(chars) == [i \in 1..Len(chars) |-> Ord(chars[i])]

\* scanner.char() past the end of the source: the empty string.
NoChar == 0 - 1

\* F(value): a value that F reads more than once is computed once.
With(value, F(_)) == F(value)

\* The code units the sources name.
BS == 8
TAB == 9
LF == 10
VT == 11
FF == 12
CR == 13
SPACE == 32
NBSP == 160
QUOTE == 34
HASH == 35
DOLLAR == 36
AMPERSAND == 38
APOSTROPHE == 39
PLUS == 43
COMMA == 44
MINUS == 45
DOT == 46
ZERO == 48
COLON == 58
EQUALS == 61
LBRACKET == 91
BACKSLASH == 92
RBRACKET == 93
UNDERSCORE == 95
BACKTICK == 96
UpperE == 69
LowerE == 101
LBRACE == 123
RBRACE == 125

Digits == 48..57
UpperCase == 65..90
LowerCase == 97..122
HexDigits == Digits \cup (97..102) \cup (65..70)

\* /\s/ of JavaScript.
RegexWhiteSpace ==
  {TAB, LF, VT, FF, CR, SPACE, NBSP, 5760, 8232, 8233, 8239, 8287, 12288, 65279}
    \cup (8192..8202)

\* The value of a hexadecimal digit.
HexValue(c) ==
  IF c \in Digits THEN c - 48
  ELSE IF c \in LowerCase THEN c - 97 + 10
  ELSE c - 65 + 10

\* Number.prototype.toString(16) of a non-negative integer, as text.
RECURSIVE ToHex(_)
ToHex(n) ==
  IF n < 16 THEN <<IF n < 10 THEN 48 + n ELSE 97 + n - 10>>
  ELSE ToHex(n \div 16) \o ToHex(n % 16)

(***************************************************************************)
(* Scanner                                                                 *)
(***************************************************************************)
Whitespace == {SPACE, TAB}

char(src, pos, index) ==
  IF pos + index + 1 \in 1..Len(src) THEN src[pos + index + 1] ELSE NoChar

\* String.prototype.slice with two non-negative indexes.
StringSlice(s, from, to) ==
  LET a == IF from > Len(s) THEN Len(s) ELSE from
      b == IF to > Len(s) THEN Len(s) ELSE to
  IN  IF b <= a THEN <<>> ELSE SubSeq(s, a + 1, b)

slice(src, pos, start, end) == StringSlice(src, pos + start, pos + end)

eof(src, pos) == pos >= Len(src)

isCurrentCharEOL(src, pos) ==
  \/ char(src, pos, 0) = LF
  \/ slice(src, pos, 0, 2) = <<CR, LF>>

\* The results of a call: success(body), failure(), or an exception.
NoError == [name |-> "", msg |-> "", arg |-> <<>>]
success(body, pos) == [st |-> "ok", body |-> body, pos |-> pos, err |-> NoError]
failure(pos) == [st |-> "fail", body |-> <<>>, pos |-> pos, err |-> NoError]
throw(name, msg, arg, pos) ==
  [st |-> "throw", body |-> <<>>, pos |-> pos,
   err |-> [name |-> name, msg |-> msg, arg |-> arg]]
TOMLParseError(msg, arg, pos) == throw("TOMLParseError", msg, arg, pos)

\* The inline loop of nextUntilChar: the position it ends at.
RECURSIVE SkipInline(_, _)
SkipInline(src, pos) ==
  IF char(src, pos, 0) \in Whitespace /\ ~eof(src, pos)
  THEN SkipInline(src, pos + 1)
  ELSE pos

\* The loop over a comment: to the end of the line or of the source.
RECURSIVE SkipComment(_, _)
SkipComment(src, pos) ==
  IF ~isCurrentCharEOL(src, pos) /\ ~eof(src, pos)
  THEN SkipComment(src, pos + 1)
  ELSE pos

\* The loop of nextUntilChar without options.inline.
RECURSIVE SkipFull(_, _, _)
SkipFull(src, pos, comment) ==
  IF eof(src, pos) THEN pos
  ELSE IF char(src, pos, 0) \in Whitespace \/ isCurrentCharEOL(src, pos)
  THEN SkipFull(src, pos + 1, comment)
  ELSE IF comment /\ char(src, pos, 0) = HASH
  THEN SkipFull(src, SkipComment(src, pos), comment)
  ELSE pos

\* Scanner.nextUntilChar(options); options.comment is undefined, hence
\* false, when the caller passes {inline: true}.
nextUntilChar(src, pos, inline, comment) ==
  With(IF inline THEN SkipInline(src, pos) ELSE SkipFull(src, pos, comment),
       LAMBDA p :
         IF ~isCurrentCharEOL(src, p) /\ char(src, p, 0) \in RegexWhiteSpace
         THEN TOMLParseError("Contains invalid whitespaces",
                             <<BACKSLASH, 117>> \o ToHex(char(src, p, 0)), p)
         ELSE success(<<>>, p))

(***************************************************************************)
(* Values.  A parsed value is tagged with its JavaScript type: t is        *)
(* "string" (v the text), "number" (v = <<k, m, e>>: the finite number     *)
(* m * 10^e when k = 0, +Infinity when k = 1, -Infinity when k = -1, NaN   *)
(* when k = 2), "boolean", "date" (v the UTC fields, see Dates), "array" (v *)
(* the elements), "object" (v the own properties, in property order, each  *)
(* [k |-> key, v |-> value]) or "undefined".                               *)
(***************************************************************************)
Undefined == [t |-> "undefined", v |-> <<>>]
Str(s) == [t |-> "string", v |-> s]
Bool(b) == [t |-> "boolean", v |-> b]
Arr(elems) == [t |-> "array", v |-> elems]
Obj(props) == [t |-> "object", v |-> props]
DateOf(time) == [t |-> "date", v |-> time]
EmptyObj == Obj(<<>>)

\* A finite number m * 10^e, normalised: m has no trailing zero digit.
RECURSIVE Num(_, _)
Num(m, e) ==
  IF m = 0 THEN [t |-> "number", v |-> <<0, 0, 0>>]
  ELSE IF m % 10 = 0 THEN Num(m \div 10, e + 1)
  ELSE [t |-> "number", v |-> <<0, m, e>>]
Infinity == [t |-> "number", v |-> <<1, 0, 0>>]
NegInfinity == [t |-> "number", v |-> <<0 - 1, 0, 0>>]
NaN == [t |-> "number", v |-> <<2, 0, 0>>]

\* !x of JavaScript.
Falsy(x) ==
  \/ x.t = "undefined"
  \/ x.t = "string" /\ x.v = <<>>
  \/ x.t = "boolean" /\ ~x.v
  \/ x.t = "number" /\ (x.v = <<0, 0, 0>> \/ x.v = <<2, 0, 0>>)

\* The value of a text of decimal digits.
RECURSIVE DecValue(_)
DecValue(s) ==
  IF s = <<>> THEN 0
  ELSE 10 * DecValue(SubSeq(s, 1, Len(s) - 1)) + (s[Len(s)] - ZERO)

\* A property key that is an array index ("0", "1", ..., without leading
\* zeros): such keys come first, in ascending order, in an object's property
\* order.
IsArrayIndex(k) ==
  /\ k # <<>>
  /\ Len(k) <= 9
  /\ \A i \in 1..Len(k) : k[i] \in Digits
  /\ (k[1] = ZERO => Len(k) = 1)

Keys(o) == [i \in 1..Len(o.v) |-> o.v[i].k]
HasOwn(o, k) == \E i \in 1..Len(o.v) : o.v[i].k = k
OwnIndex(o, k) == CHOOSE i \in 1..Len(o.v) : o.v[i].k = k
Get(o, k) == IF HasOwn(o, k) THEN o.v[OwnIndex(o, k)].v ELSE Undefined

\* Where a new property k of o goes in its property order.
InsertAt(o, k) ==
  IF IsArrayIndex(k)
  THEN Cardinality({i \in 1..Len(o.v) :
                      IsArrayIndex(o.v[i].k) /\ DecValue(o.v[i].k) < DecValue(k)})
  ELSE Len(o.v)

\* o[k] = x on an object.
Put(o, k, x) ==
  IF HasOwn(o, k)
  THEN Obj([o.v EXCEPT ![OwnIndex(o, k)] = [k |-> k, v |-> x]])
  ELSE With(InsertAt(o, k),
            LAMBDA n : Obj(SubSeq(o.v, 1, n) \o <<[k |-> k, v |-> x]>>
                             \o SubSeq(o.v, n + 1, Len(o.v))))

\* target[k] for the values the parser builds (own properties only: the
\* keys of the model are never those of Object.prototype).
GetProp(target, k) ==
  CASE target.t = "object" -> Get(target, k)
    [] target.t \in {"array", "string"} ->
         IF IsArrayIndex(k) /\ DecValue(k) < Len(target.v)
         THEN IF target.t = "array" THEN target.v[DecValue(k) + 1]
              ELSE Str(<<target.v[DecValue(k) + 1]>>)
         ELSE IF k = Text(<<"l", "e", "n", "g", "t", "h">>)
         THEN Num(Len(target.v), 0)
         ELSE Undefined
    [] OTHER -> Undefined

\* target[k] = x where target[k] exists: on an object, or on an element of
\* an array.
PutProp(target, k, x) ==
  IF target.t = "array"
  THEN Arr([target.v EXCEPT ![DecValue(k) + 1] = x])
  ELSE Put(target, k, x)

(***************************************************************************)
(* Utils                                                                   *)
(***************************************************************************)
\* The key whose assignment, out[key] = x on an object literal, goes to the
\* accessor of Object.prototype: it sets the prototype of out where x is an
\* object, does nothing otherwise, and adds no own property.
PROTO == Text(<<"_", "_", "p", "r", "o", "t", "o", "_", "_">>)

\* Utils.unflat(keys, values, cObj); keys is an array of strings.
RECURSIVE unflat3(_, _, _)
unflat3(keys, values, cObj) ==
  IF Len(keys.v) = 0 THEN cObj
  ELSE With(keys.v[Len(keys.v)],
            LAMBDA key :
              unflat3(Arr(SubSeq(keys.v, 1, Len(keys.v) - 1)), values,
                      IF key.t = "string" /\ key.v # PROTO
                      THEN Put(EmptyObj, key.v, IF Falsy(cObj) THEN values ELSE cObj)
                      ELSE EmptyObj))

\* Utils.unflat(keys, values), as its callers call it.
\* unflat that wraps the value in the last key only.
unflatLastKey(keys, values) ==
  unflat3(Arr(<<keys.v[Len(keys.v)]>>), values, Undefined)

unflat(keys, values) == unflat3(keys, values, Undefined)

\* The slip of taking the source in place of the target.
ObjectAssignFresh(target, from) == from

\* Object.assign(target, source) for an object target.
RECURSIVE ObjectAssign(_, _)
ObjectAssign(target, from) ==
  IF from.v = <<>> THEN target
  ELSE ObjectAssign(Put(target, from.v[1].k, from.v[1].v),
                    Obj(Tail(from.v)))

\* value.push(table.value) in deepAssignWithTable: value after the call.
\* PushInPlaceOfAll is the slip of keeping only the pushed element.
PushInPlaceOfAll(value, table) == Arr(<<table.value>>)

Push(value, table) == Arr(Append(value.v, table.value))

\* The index of last, value[value.length - 1], in deepAssignWithTable, 0
\* when value is empty.  FirstIndex is the slip of taking value[0].
FirstIndex(value) == IF Len(value.v) = 0 THEN 0 ELSE 1

LastIndex(value) == Len(value.v)

\* The slip of assigning whatever is at the first key already.
deepAssignReplacing(target, table) ==
  success(ObjectAssign(target,
            unflat(table.key, IF table.type = "Table" THEN table.value
                              ELSE Arr(<<table.value>>))), 0)

\* Utils.deepAssignWithTable(target, table), which changes target in place:
\* body is target after the call.  table.key is an array of strings.
\* Object.assign on a number, a boolean, a string, a date or an array leaves
\* the elements and the value as they are.
RECURSIVE deepAssignWithTable(_, _)
deepAssignWithTable(target, table) ==
  IF Len(table.key.v) = 0
  THEN throw("Error", "Unexpected key length", <<>>, 0)
  ELSE IF target.t = "undefined"
  THEN throw("TypeError", "Cannot read properties of undefined", <<>>, 0)
  ELSE
    With(<< table.key.v[1].v, GetProp(target, table.key.v[1].v),
            [type |-> table.type, key |-> Arr(Tail(table.key.v)),
             value |-> table.value] >>,
         LAMBDA call :
           \* call is <<k0, value, the table with the rest of the key>>
           IF call[2].t = "undefined"
           THEN IF target.t = "object"
                THEN success(ObjectAssign(target,
                       unflat(table.key, IF table.type = "Table" THEN table.value
                                         ELSE Arr(<<table.value>>))), 0)
                ELSE success(target, 0)
           ELSE IF call[2].t = "array"
           THEN IF table.type = "TableArray" /\ Len(table.key.v) = 1
                THEN success(PutProp(target, call[1], Push(call[2], table)), 0)
                ELSE With(<<LastIndex(call[2]),
                            deepAssignWithTable(
                              IF LastIndex(call[2]) = 0 THEN Undefined
                              ELSE call[2].v[LastIndex(call[2])], call[3])>>,
                          LAMBDA r :
                            IF r[2].st = "ok"
                            THEN success(PutProp(target, call[1],
                                   Arr([call[2].v EXCEPT ![r[1]] = r[2].body])),
                                   0)
                            ELSE r[2])
           ELSE IF call[2].t \in {"object", "date"}
           THEN With(deepAssignWithTable(call[2], call[3]),
                     LAMBDA r :
                       IF r.st = "ok"
                       THEN success(PutProp(target, call[1], r.body), 0)
                       ELSE r)
           ELSE throw("Error", "Unexpected assign", <<>>, 0))

\* deepMerge(record, other) of @std/collections, which is not part of the
\* sources: two mappings are merged key by key, the right one winning where
\* the two values are not both mappings.
RECURSIVE deepMerge(_, _)
deepMerge(record, other) ==
  IF other.v = <<>> THEN record
  ELSE With(<<Get(record, other.v[1].k), other.v[1].v>>,
            LAMBDA ab :
              deepMerge(Put(record, other.v[1].k,
                            IF ab[1].t = "object" /\ ab[2].t = "object"
                            THEN deepMerge(ab[1], ab[2])
                            ELSE ab[2]),
                        Obj(Tail(other.v))))

(***************************************************************************)
(* Parser combinators and generators.  A parser is described by how the    *)
(* source builds it: a function of the module, or a combinator applied to  *)
(* parsers; Run(parser, src, pos) calls it with the scanner at pos.        *)
(***************************************************************************)
Fn(name) == [op |-> name]
or(parsers) == [op |-> "or", parsers |-> parsers]
join(parser, separator) ==
  [op |-> "join", parser |-> parser, separator |-> separator]
kv(keyParser, separator, valueParser) ==
  [op |-> "kv", keyParser |-> keyParser, separator |-> separator,
   valueParser |-> valueParser]
merge(parser) == [op |-> "merge", parser |-> parser]
repeat(parser) == [op |-> "repeat", parser |-> parser]
surround(left, parser, right) ==
  [op |-> "surround", left |-> left, parser |-> parser, right |-> right]

RECURSIVE Run(_, _, _)

\* function character(scanner) of character(str).
character(str, src, pos) ==
  With(nextUntilChar(src, pos, TRUE, FALSE), LAMBDA a :
    IF a.st = "throw" THEN a
    ELSE IF slice(src, a.pos, 0, Len(str)) = str
    THEN With(nextUntilChar(src, a.pos + Len(str), TRUE, FALSE), LAMBDA b :
           IF b.st = "throw" THEN b ELSE success(Undefined, b.pos))
    ELSE failure(a.pos))

\* OrLoop in which an error thrown by a parser counts as a failure.
RECURSIVE OrLoopCatching(_, _, _)
OrLoopCatching(parsers, src, result) ==
  CASE result.st = "ok" -> result
    [] result.st # "ok" /\ parsers = <<>> -> failure(result.pos)
    [] OTHER ->
         OrLoopCatching(Tail(parsers), src, Run(parsers[1], src, result.pos))

\* The for loop of Or over the parsers still to try: result is what the
\* parser before them returned, where the scanner is at result.pos.
RECURSIVE OrLoop(_, _, _)
OrLoop(parsers, src, result) ==
  CASE result.st # "fail" -> result
    [] result.st = "fail" /\ parsers = <<>> -> failure(result.pos)
    [] OTHER -> OrLoop(Tail(parsers), src, Run(parsers[1], src, result.pos))

\* function Or(scanner) of or(parsers).
Or(parsers, src, pos) == OrLoop(parsers, src, failure(pos))

\* The while loop of Join: out is the list so far; then its body, after
\* Separator(scanner) returned sep, and after parser(scanner) returned result.
RECURSIVE JoinLoop(_, _, _, _, _)
\* JoinResult that ends the list where the parser fails after a separator.
JoinResultShorter(parser, separator, src, out, result) ==
  CASE result.st = "throw" -> result
    [] result.st = "ok" ->
         JoinLoop(parser, separator, src, result.pos, Append(out, result.body))
    [] OTHER -> success(Arr(out), result.pos)

JoinResult(parser, separator, src, out, result) ==
  CASE result.st = "throw" -> result
    [] result.st = "ok" ->
         JoinLoop(parser, separator, src, result.pos, Append(out, result.body))
    [] OTHER -> TOMLParseError("Invalid token after", separator, result.pos)

JoinSeparator(parser, separator, src, out, sep) ==
  CASE sep.st = "throw" -> sep
    [] sep.st = "fail" -> success(Arr(out), sep.pos)
    [] OTHER -> JoinResult(parser, separator, src, out,
                           Run(parser, src, sep.pos))

JoinLoop(parser, separator, src, pos, out) ==
  IF eof(src, pos) THEN success(Arr(out), pos)
  ELSE JoinSeparator(parser, separator, src, out,
                     character(separator, src, pos))

\* Join after parser(scanner) returned first.
JoinFirst(parser, separator, src, first) ==
  CASE first.st = "throw" -> first
    [] first.st = "fail" -> failure(first.pos)
    [] OTHER -> JoinLoop(parser, separator, src, first.pos, <<first.body>>)

\* function Join(scanner) of join(parser, separator).
Join(parser, separator, src, pos) ==
  JoinFirst(parser, separator, src, Run(parser, src, pos))

\* Kv after valueParser(scanner) returned value.
KvValue(key, value) ==
  CASE value.st = "throw" -> value
    [] value.st = "fail" ->
         TOMLParseError("Value of key/value pair is invalid data format", <<>>,
                        value.pos)
    [] OTHER -> success(unflat(key.body, value.body), value.pos)

\* KvSeparator that fails where the separator is missing.
KvSeparatorSoft(key, separator, valueParser, src, sep) ==
  CASE sep.st = "throw" -> sep
    [] sep.st = "fail" -> failure(sep.pos)
    [] OTHER -> KvValue(key, Run(valueParser, src, sep.pos))

\* Kv after Separator(scanner) returned sep.
KvSeparator(key, separator, valueParser, src, sep) ==
  CASE sep.st = "throw" -> sep
    [] sep.st = "fail" ->
         TOMLParseError("key/value pair doesn't have", separator, sep.pos)
    [] OTHER -> KvValue(key, Run(valueParser, src, sep.pos))

\* Kv after keyParser(scanner) returned key.
KvKey(separator, valueParser, src, key) ==
  CASE key.st = "throw" -> key
    [] key.st = "fail" -> failure(key.pos)
    [] OTHER -> KvSeparator(key, separator, valueParser, src,
                            character(separator, src, key.pos))

\* function Kv(scanner) of kv(keyParser, separator, valueParser).
Kv(keyParser, separator, valueParser, src, pos) ==
  KvKey(separator, valueParser, src, Run(keyParser, src, pos))

\* The for loop of Merge with Object.assign(body, record) in place of
\* deepMerge(body, record).
RECURSIVE MergeAllAssign(_, _)
MergeAllAssign(body, records) ==
  IF records = <<>> THEN body
  ELSE MergeAllAssign(ObjectAssign(body, records[1]), Tail(records))

\* The for loop of Merge over the records; body starts as an object, and so
\* it stays one.
RECURSIVE MergeAll(_, _)
MergeAll(body, records) ==
  IF records = <<>> THEN body
  ELSE MergeAll(IF body.t = "object" THEN deepMerge(body, records[1]) ELSE body,
                Tail(records))

\* Merge after parser(scanner) returned result.
MergeResult(result) ==
  CASE result.st = "throw" -> result
    [] result.st = "fail" -> failure(result.pos)
    [] OTHER -> success(MergeAll(EmptyObj, result.body.v), result.pos)

\* function Merge(scanner) of merge(parser).
Merge(parser, src, pos) == MergeResult(Run(parser, src, pos))

\* Repeat after its while loop, which leaves the list body.
RepeatEnd(body, pos) ==
  IF Len(body) = 0 THEN failure(pos) ELSE success(Arr(body), pos)

\* The while loop of Repeat and what follows it: body is the list so far;
\* then the body of the loop, after parser(scanner) returned result, and
\* after scanner.nextUntilChar() returned skip.
RECURSIVE RepeatLoop(_, _, _, _)
RepeatSkip(parser, src, body, skip) ==
  IF skip.st = "throw" THEN skip ELSE RepeatLoop(parser, src, skip.pos, body)

RepeatResult(parser, src, body, result) ==
  CASE result.st = "throw" -> result
    [] result.st = "fail" -> RepeatEnd(body, result.pos)
    [] OTHER -> RepeatSkip(parser, src, Append(body, result.body),
                           nextUntilChar(src, result.pos, FALSE, TRUE))

RepeatLoop(parser, src, pos, body) ==
  IF eof(src, pos) THEN RepeatEnd(body, pos)
  ELSE RepeatResult(parser, src, body, Run(parser, src, pos))

\* function Repeat(scanner) of repeat(parser).
Repeat(parser, src, pos) == RepeatLoop(parser, src, pos, <<>>)

\* Surround after Right(scanner) returned r.
SurroundRight(left, right, result, r) ==
  CASE r.st = "throw" -> r
    [] r.st = "fail" -> TOMLParseError("Not closed by", right \o left, r.pos)
    [] OTHER -> success(result.body, r.pos)

\* Surround after parser(scanner) returned result.
SurroundResult(left, right, src, result) ==
  CASE result.st = "throw" -> result
    [] result.st = "fail" ->
         TOMLParseError("Invalid token after", left, result.pos)
    [] OTHER -> SurroundRight(left, right, result,
                              character(right, src, result.pos))

\* Surround after Left(scanner) returned l.
SurroundLeft(left, parser, right, src, l) ==
  CASE l.st = "throw" -> l
    [] l.st = "fail" -> failure(l.pos)
    [] OTHER -> SurroundResult(left, right, src, Run(parser, src, l.pos))

\* function Surround(scanner) of surround(left, parser, right).
Surround(left, parser, right, src, pos) ==
  SurroundLeft(left, parser, right, src, character(left, src, pos))

(***************************************************************************)
(* Parser components.  The loops that collect characters return the text   *)
(* collected (acc); the parser functions return JavaScript values.         *)
(***************************************************************************)
\* Patterns.BARE_KEY, Patterns.FLOAT (case-insensitive) and
\* Patterns.END_OF_VALUE.
BARE_KEY == LowerCase \cup UpperCase \cup Digits \cup {UNDERSCORE, MINUS}
FLOAT == Digits \cup {UNDERSCORE, DOT, LowerE, UpperE, PLUS, MINUS}
END_OF_VALUE == {SPACE, TAB, CR, LF, HASH, COMMA, RBRACE, RBRACKET}

\* The position after the characters of class, from pos, as the loops
\* "while (class.test(scanner.char()) && !scanner.eof()) scanner.next()" find.
RECURSIVE SkipClass(_, _, _)
SkipClass(class, src, pos) ==
  IF char(src, pos, 0) \in class /\ ~eof(src, pos)
  THEN SkipClass(class, src, pos + 1)
  ELSE pos

BareKey(src, pos) ==
  With(nextUntilChar(src, pos, TRUE, FALSE), LAMBDA a :
    IF a.st = "throw" THEN a
    ELSE IF char(src, a.pos, 0) = NoChar \/ char(src, a.pos, 0) \notin BARE_KEY
    THEN failure(a.pos)
    ELSE With(SkipClass(BARE_KEY, src, a.pos), LAMBDA q :
           success(Str(slice(src, a.pos, 0, q - a.pos)), q)))

\* The hexadecimal digits a text starts with.
RECURSIVE HexPrefix(_)
HexPrefix(s) ==
  IF s # <<>> /\ s[1] \in HexDigits THEN <<s[1]>> \o HexPrefix(Tail(s)) ELSE <<>>

\* The value of a text of hexadecimal digits.
RECURSIVE HexNumber(_)
HexNumber(s) ==
  IF s = <<>> THEN 0
  ELSE 16 * HexNumber(SubSeq(s, 1, Len(s) - 1)) + HexValue(s[Len(s)])

MaxCodePoint == 1114111

\* String.fromCodePoint(codePoint) for a valid code point: one code unit,
\* or a surrogate pair.
fromCodePoint(codePoint) ==
  IF codePoint < 65536 THEN <<codePoint>>
  ELSE << 55296 + ((codePoint - 65536) \div 1024),
          56320 + ((codePoint - 65536) % 1024) >>

\* pos is the position of the backslash.
EscapeSequence(src, pos) ==
  IF char(src, pos, 0) = BACKSLASH
  THEN With(char(src, pos + 1, 0), LAMBDA c :
         CASE c = 98 -> success(Str(<<BS>>), pos + 2)    \* b
           [] c = 116 -> success(Str(<<TAB>>), pos + 2)  \* t
           [] c = 110 -> success(Str(<<LF>>), pos + 2)   \* n
           [] c = 102 -> success(Str(<<FF>>), pos + 2)   \* f
           [] c = 114 -> success(Str(<<CR>>), pos + 2)   \* r
           [] c \in {117, 85} ->                          \* u, U
                \* parseInt("0x" + slice, 16): NaN without a digit
                With(<< IF c = 117 THEN 4 ELSE 6,
                        HexPrefix(slice(src, pos + 1, 1,
                                        1 + (IF c = 117 THEN 4 ELSE 6))) >>,
                     LAMBDA code :
                       \* code is <<codePointLen, the digits parseInt reads>>
                       IF code[2] = <<>> \/ HexNumber(code[2]) > MaxCodePoint
                       THEN throw("RangeError", "Invalid code point", code[2],
                                  pos + 1)
                       ELSE success(Str(fromCodePoint(HexNumber(code[2]))),
                                    pos + 1 + code[1] + 1))
           [] c = QUOTE -> success(Str(<<QUOTE>>), pos + 2)
           [] c = BACKSLASH -> success(Str(<<BACKSLASH>>), pos + 2)
           [] OTHER -> TOMLParseError("Invalid escape sequence",
                                      IF c = NoChar THEN <<>> ELSE <<c>>,
                                      pos + 1))
  ELSE failure(pos)

\* The while loop of BasicString: acc is the text so far.
RECURSIVE BasicStringLoop(_, _, _)
BasicStringLoop(src, pos, acc) ==
  IF char(src, pos, 0) # QUOTE /\ ~eof(src, pos)
  THEN IF char(src, pos, 0) = LF
       THEN TOMLParseError("Single-line string cannot contain EOL", <<>>, pos)
       ELSE With(EscapeSequence(src, pos), LAMBDA escapedChar :
              IF escapedChar.st = "throw" THEN escapedChar
              ELSE IF escapedChar.st = "ok"
              THEN BasicStringLoop(src, escapedChar.pos,
                                   acc \o escapedChar.body.v)
              ELSE BasicStringLoop(src, pos + 1, Append(acc, char(src, pos, 0))))
  ELSE success(acc, pos)

BasicString(src, pos) ==
  With(nextUntilChar(src, pos, TRUE, FALSE), LAMBDA a :
    IF a.st = "throw" THEN a
    ELSE IF char(src, a.pos, 0) # QUOTE THEN failure(a.pos)
    ELSE With(BasicStringLoop(src, a.pos + 1, <<>>), LAMBDA loop :
           IF loop.st = "throw" THEN loop
           ELSE IF eof(src, loop.pos)
           THEN TOMLParseError("Single-line string is not closed", loop.body,
                               loop.pos)
           ELSE success(Str(loop.body), loop.pos + 1)))

\* The while loop of LiteralString.
RECURSIVE LiteralStringLoop(_, _, _)
LiteralStringLoop(src, pos, acc) ==
  IF char(src, pos, 0) # APOSTROPHE /\ ~eof(src, pos)
  THEN IF char(src, pos, 0) = LF
       THEN TOMLParseError("Single-line string cannot contain EOL", <<>>, pos)
       ELSE LiteralStringLoop(src, pos + 1, Append(acc, char(src, pos, 0)))
  ELSE success(acc, pos)

LiteralString(src, pos) ==
  With(nextUntilChar(src, pos, TRUE, FALSE), LAMBDA a :
    IF a.st = "throw" THEN a
    ELSE IF char(src, a.pos, 0) # APOSTROPHE THEN failure(a.pos)
    ELSE With(LiteralStringLoop(src, a.pos + 1, <<>>), LAMBDA loop :
           IF loop.st = "throw" THEN loop
           ELSE IF eof(src, loop.pos)
           THEN TOMLParseError("Single-line string is not closed", loop.body,
                               loop.pos)
           ELSE success(Str(loop.body), loop.pos + 1)))

\* MultilineBasicString without the trimming of the first newline.
KeepFirstNewline(src, pos) == pos

\* The position after the first newline (LF or CRLF) is trimmed.
TrimFirstNewline(src, pos) ==
  IF char(src, pos, 0) = LF THEN pos + 1
  ELSE IF slice(src, pos, 0, 2) = <<CR, LF>> THEN pos + 2
  ELSE pos

\* The while loop of MultilineBasicString.
RECURSIVE MultilineBasicStringLoop(_, _, _)
MultilineBasicStringLoop(src, pos, acc) ==
  IF slice(src, pos, 0, 3) # <<QUOTE, QUOTE, QUOTE>> /\ ~eof(src, pos)
  THEN IF \/ slice(src, pos, 0, 2) = <<BACKSLASH, LF>>
          \/ slice(src, pos, 0, 3) = <<BACKSLASH, CR, LF>>
       THEN \* line ending backslash
            With(nextUntilChar(src, pos + 1, FALSE, FALSE), LAMBDA skip :
              IF skip.st = "throw" THEN skip
              ELSE MultilineBasicStringLoop(src, skip.pos, acc))
       ELSE With(EscapeSequence(src, pos), LAMBDA escapedChar :
              IF escapedChar.st = "throw" THEN escapedChar
              ELSE IF escapedChar.st = "ok"
              THEN MultilineBasicStringLoop(src, escapedChar.pos,
                                            acc \o escapedChar.body.v)
              ELSE MultilineBasicStringLoop(src, pos + 1,
                                            Append(acc, char(src, pos, 0))))
  ELSE success(acc, pos)

\* MultilineBasicString whose closing takes three quotes and no more.
MultilineBasicStringPlain(src, pos) ==
  With(nextUntilChar(src, pos, TRUE, FALSE), LAMBDA a :
    IF a.st = "throw" THEN a
    ELSE IF slice(src, a.pos, 0, 3) # <<QUOTE, QUOTE, QUOTE>> THEN failure(a.pos)
    ELSE With(MultilineBasicStringLoop(src, TrimFirstNewline(src, a.pos + 3),
                                       <<>>),
              LAMBDA loop :
                IF loop.st = "throw" THEN loop
                ELSE IF eof(src, loop.pos)
                THEN TOMLParseError("Multi-line string is not closed", loop.body,
                                    loop.pos)
                ELSE success(Str(loop.body), loop.pos + 3)))

MultilineBasicString(src, pos) ==
  With(nextUntilChar(src, pos, TRUE, FALSE), LAMBDA a :
    IF a.st = "throw" THEN a
    ELSE IF slice(src, a.pos, 0, 3) # <<QUOTE, QUOTE, QUOTE>> THEN failure(a.pos)
    ELSE With(MultilineBasicStringLoop(src, TrimFirstNewline(src, a.pos + 3),
                                       <<>>),
              LAMBDA loop :
                IF loop.st = "throw" THEN loop
                ELSE IF eof(src, loop.pos)
                THEN TOMLParseError("Multi-line string is not closed", loop.body,
                                    loop.pos)
                ELSE IF char(src, loop.pos, 3) = QUOTE
                THEN \* ends with 4 quotes: the first one is part of the string
                     success(Str(Append(loop.body, QUOTE)), loop.pos + 4)
                ELSE success(Str(loop.body), loop.pos + 3)))

\* The while loop of MultilineLiteralString.
RECURSIVE MultilineLiteralStringLoop(_, _, _)
MultilineLiteralStringLoop(src, pos, acc) ==
  IF slice(src, pos, 0, 3) # <<APOSTROPHE, APOSTROPHE, APOSTROPHE>>
     /\ ~eof(src, pos)
  THEN MultilineLiteralStringLoop(src, pos + 1, Append(acc, char(src, pos, 0)))
  ELSE success(acc, pos)

MultilineLiteralString(src, pos) ==
  With(nextUntilChar(src, pos, TRUE, FALSE), LAMBDA a :
    IF a.st = "throw" THEN a
    ELSE IF slice(src, a.pos, 0, 3) # <<APOSTROPHE, APOSTROPHE, APOSTROPHE>>
    THEN failure(a.pos)
    ELSE With(MultilineLiteralStringLoop(src, TrimFirstNewline(src, a.pos + 3),
                                         <<>>),
              LAMBDA loop :
                IF eof(src, loop.pos)
                THEN TOMLParseError("Multi-line string is not closed", loop.body,
                                    loop.pos)
                ELSE IF char(src, loop.pos, 3) = APOSTROPHE
                THEN success(Str(Append(loop.body, APOSTROPHE)), loop.pos + 4)
                ELSE success(Str(loop.body), loop.pos + 3)))

\* symbolPairs
symbolPairs ==
  << [str |-> Text(<<"t", "r", "u", "e">>), value |-> Bool(TRUE)],
     [str |-> Text(<<"f", "a", "l", "s", "e">>), value |-> Bool(FALSE)],
     [str |-> Text(<<"i", "n", "f">>), value |-> Infinity],
     [str |-> Text(<<"+", "i", "n", "f">>), value |-> Infinity],
     [str |-> Text(<<"-", "i", "n", "f">>), value |-> NegInfinity],
     [str |-> Text(<<"n", "a", "n">>), value |-> NaN],
     [str |-> Text(<<"+", "n", "a", "n">>), value |-> NaN],
     [str |-> Text(<<"-", "n", "a", "n">>), value |-> NaN] >>

\* symbolPairs.find: the index of the first pair whose str the text starts
\* with, 0 when there is none.
SymbolFound(text) ==
  With({i \in 1..Len(symbolPairs) :
          StringSlice(text, 0, Len(symbolPairs[i].str)) = symbolPairs[i].str},
       LAMBDA matches :
         IF matches = {} THEN 0
         ELSE CHOOSE i \in matches : \A j \in matches : i <= j)

Symbols(src, pos) ==
  With(nextUntilChar(src, pos, TRUE, FALSE), LAMBDA a :
    IF a.st = "throw" THEN a
    ELSE With(SymbolFound(slice(src, a.pos, 0, 5)), LAMBDA found :
           IF found = 0 THEN failure(a.pos)
           ELSE success(symbolPairs[found].value,
                        a.pos + Len(symbolPairs[found].str))))

\* A text without its underscores: acc.filter((char) => char !== "_").
RECURSIVE WithoutUnderscores(_)
WithoutUnderscores(s) ==
  IF s = <<>> THEN <<>>
  ELSE IF s[1] = UNDERSCORE THEN WithoutUnderscores(Tail(s))
  ELSE <<s[1]>> \o WithoutUnderscores(Tail(s))

\* The decimal digits a text starts with.
RECURSIVE DigitPrefix(_)
DigitPrefix(s) ==
  IF s # <<>> /\ s[1] \in Digits THEN <<s[1]>> \o DigitPrefix(Tail(s)) ELSE <<>>

\* s without its first n characters.
Drop(s, n) == SubSeq(s, n + 1, Len(s))

\* parseInt(s) of a text made of a sign and decimal digits.
parseInt(s) ==
  With(DigitPrefix(IF s # <<>> /\ s[1] \in {PLUS, MINUS} THEN Tail(s) ELSE s),
       LAMBDA digits :
         IF digits = <<>> THEN NaN
         ELSE IF s[1] = MINUS THEN Num(0 - DecValue(digits), 0)
         ELSE Num(DecValue(digits), 0))

\* The fraction a text starts with: "." and the digits after it, or nothing.
DecimalFraction(s) ==
  IF s # <<>> /\ s[1] = DOT THEN <<DOT>> \o DigitPrefix(Tail(s)) ELSE <<>>

\* The value of the exponent part a text starts with: "e" or "E", a sign or
\* none, and digits; 0 when the text starts with no exponent part.
DecimalExponent(s) ==
  IF s # <<>> /\ s[1] \in {LowerE, UpperE}
  THEN With(DigitPrefix(IF Len(s) >= 2 /\ s[2] \in {PLUS, MINUS}
                        THEN Drop(s, 2) ELSE Tail(s)),
            LAMBDA digits :
              IF digits = <<>> THEN 0
              ELSE IF s[2] = MINUS THEN 0 - DecValue(digits)
              ELSE DecValue(digits))
  ELSE 0

\* parseFloat(s) of a text of the characters of Patterns.FLOAT: the longest
\* decimal literal s starts with (numbers of at most 9 digits, which a double
\* represents so that it prints as the same decimal).
parseFloat(s) ==
  With(IF s # <<>> /\ s[1] \in {PLUS, MINUS} THEN Tail(s) ELSE s, LAMBDA s1 :
    With(DigitPrefix(s1), LAMBDA int :
      With(DecimalFraction(Drop(s1, Len(int))), LAMBDA frac :
        With(DecimalExponent(Drop(s1, Len(int) + Len(frac))), LAMBDA exponent :
          IF int = <<>> /\ Len(frac) <= 1 THEN NaN
          ELSE Num(IF s[1] = MINUS THEN 0 - DecValue(int \o Drop(frac, 1))
                   ELSE DecValue(int \o Drop(frac, 1)),
                   exponent - Len(Drop(frac, 1)))))))

isNaN(x) == x.t = "number" /\ x.v[1] = 2

RadixLetters == {120, 111, 98, 88, 79, 66}  \* x o b X O B

\* Integer without the branch of the binary, octal and hex prefixes.
IntegerDecimalOnly(src, pos) ==
  With(nextUntilChar(src, pos, TRUE, FALSE), LAMBDA a :
    IF a.st = "throw" THEN a
    ELSE With(SkipClass(Digits \cup {UNDERSCORE}, src,
                        IF char(src, a.pos, 0) \in {PLUS, MINUS} THEN a.pos + 1
                        ELSE a.pos),
              LAMBDA q :
                With(slice(src, a.pos, 0, q - a.pos), LAMBDA acc :
                  IF Len(acc) = 0 \/ (Len(acc) = 1 /\ acc[1] \in {PLUS, MINUS})
                  THEN failure(q)
                  ELSE success(parseInt(WithoutUnderscores(acc)), q))))

Integer(src, pos) ==
  With(nextUntilChar(src, pos, TRUE, FALSE), LAMBDA a :
    IF a.st = "throw" THEN a
    ELSE IF char(src, a.pos, 0) = ZERO /\ char(src, a.pos, 1) \in RadixLetters
    THEN \* binary / octal / hex
         With(SkipClass(HexDigits \cup {UNDERSCORE}, src, a.pos + 2), LAMBDA q :
           IF q = a.pos + 2 THEN failure(q)
           ELSE success(Str(slice(src, a.pos, 0, q - a.pos)), q))
    ELSE With(SkipClass(Digits \cup {UNDERSCORE}, src,
                        IF char(src, a.pos, 0) \in {PLUS, MINUS} THEN a.pos + 1
                        ELSE a.pos),
              LAMBDA q :
                With(slice(src, a.pos, 0, q - a.pos), LAMBDA acc :
                  IF Len(acc) = 0 \/ (Len(acc) = 1 /\ acc[1] \in {PLUS, MINUS})
                  THEN failure(q)
                  ELSE success(parseInt(WithoutUnderscores(acc)), q))))

\* The lookahead of Float: whether every character up to the end of the
\* value is one of Patterns.FLOAT (index is the position of the source).
RECURSIVE FloatLookahead(_, _, _)
FloatLookahead(src, pos, index) ==
  IF char(src, pos, index) # NoChar
     /\ char(src, pos, index) \notin END_OF_VALUE
  THEN IF char(src, pos, index) \notin FLOAT THEN FALSE
       ELSE FloatLookahead(src, pos, index + 1)
  ELSE TRUE

Float(src, pos) ==
  With(nextUntilChar(src, pos, TRUE, FALSE), LAMBDA a :
    IF a.st = "throw" THEN a
    ELSE IF ~FloatLookahead(src, a.pos, 0) THEN failure(a.pos)
    ELSE With(SkipClass(FLOAT, src,
                        IF char(src, a.pos, 0) \in {PLUS, MINUS} THEN a.pos + 1
                        ELSE a.pos),
              LAMBDA q :
                With(parseFloat(WithoutUnderscores(slice(src, a.pos, 0, q - a.pos))),
                     LAMBDA float :
                       IF q = a.pos THEN failure(q)
                       ELSE IF isNaN(float) THEN failure(q)
                       ELSE success(float, q))))

(***************************************************************************)
(* Dates.  The time value of a Date is kept as its UTC fields <<year,      *)
(* month, day, ms>>: the month from 1 and the milliseconds of the day.     *)
(* new Date(text) is modelled for the ISO forms YYYY-MM-DD, then           *)
(* optionally "T" or a space and HH:MM, :SS, .fraction, and "Z" or -HH:MM; *)
(* a text with a time and without "Z" or an offset is local time, and the  *)
(* host's time zone gives its UTC time.  Any other text is taken as an     *)
(* invalid date.                                                           *)
(***************************************************************************)
MsPerDay == 24 * 60 * 60 * 1000

DaysInMonth(y, m) ==
  IF m = 2
  THEN IF (y % 4 = 0 /\ y % 100 # 0) \/ y % 400 = 0 THEN 29 ELSE 28
  ELSE IF m \in {4, 6, 9, 11} THEN 30 ELSE 31

\* The day after and the day before <<y, m, d>>.
NextDay(y, m, d) ==
  IF d < DaysInMonth(y, m) THEN <<y, m, d + 1>>
  ELSE IF m < 12 THEN <<y, m + 1, 1>>
  ELSE <<y + 1, 1, 1>>
PrevDay(y, m, d) ==
  IF d > 1 THEN <<y, m, d - 1>>
  ELSE IF m > 1 THEN <<y, m - 1, DaysInMonth(y, m - 1)>>
  ELSE <<y - 1, 12, 31>>

AllDigits(s) == \A i \in 1..Len(s) : s[i] \in Digits

\* The milliseconds of a fraction of a second: its first three digits.
FractionMs(digits) ==
  DecValue(SubSeq(digits \o <<ZERO, ZERO, ZERO>>, 1, 3))

InvalidDate == <<>>

\* Whether the text after the date starts with a time, THH:MM, and whether
\* seconds follow it.
HasTime(rest) ==
  /\ Len(rest) >= 6
  /\ rest[1] \in {84, SPACE}  \* T
  /\ AllDigits(SubSeq(rest, 2, 3)) /\ rest[4] = COLON
  /\ AllDigits(SubSeq(rest, 5, 6))
  /\ DecValue(SubSeq(rest, 2, 3)) < 24 /\ DecValue(SubSeq(rest, 5, 6)) < 60
HasSeconds(rest) ==
  /\ Len(rest) >= 9 /\ rest[7] = COLON
  /\ AllDigits(SubSeq(rest, 8, 9)) /\ DecValue(SubSeq(rest, 8, 9)) < 60

\* The fraction of the seconds: the text after them starts with "." and
\* digits, or there is none.
SecondsFraction(afterSec) ==
  IF afterSec # <<>> /\ afterSec[1] = DOT THEN DigitPrefix(Tail(afterSec))
  ELSE <<>>

\* The time zone of a date text: none, "Z", or -HH:MM.
IsZone(zone) ==
  \/ zone = <<>>
  \/ zone = <<90>>  \* Z
  \/ /\ Len(zone) = 6 /\ zone[1] = MINUS /\ zone[4] = COLON
     /\ AllDigits(SubSeq(zone, 2, 3)) /\ AllDigits(SubSeq(zone, 5, 6))
     /\ DecValue(SubSeq(zone, 2, 3)) < 24 /\ DecValue(SubSeq(zone, 5, 6)) < 60

\* The minutes to add to the time written to get UTC.
ZoneShift(zone, offset) ==
  IF zone = <<>> THEN offset
  ELSE IF zone = <<90>> THEN 0
  ELSE 60 * DecValue(SubSeq(zone, 2, 3)) + DecValue(SubSeq(zone, 5, 6))

\* The date ms milliseconds after the start of the day y-m-d, for less than
\* a day before it to less than two days after it.
DateAt(y, m, d, ms) ==
  IF ms < 0 THEN Append(PrevDay(y, m, d), ms + MsPerDay)
  ELSE IF ms >= MsPerDay THEN Append(NextDay(y, m, d), ms - MsPerDay)
  ELSE <<y, m, d, ms>>

\* The time of the day in ms that rest, the text after the date, writes,
\* moved to UTC; rest has a time, and seconds if sec.
TimeOfDay(rest, sec, fraction, zone, offset) ==
  (((DecValue(SubSeq(rest, 2, 3)) * 60 + DecValue(SubSeq(rest, 5, 6))
       + ZoneShift(zone, offset)) * 60
      + (IF sec THEN DecValue(SubSeq(rest, 8, 9)) ELSE 0)) * 1000)
    + FractionMs(fraction)

\* The time value of new Date(text) in a host whose local time is offset
\* minutes behind UTC (Date.prototype.getTimezoneOffset), or InvalidDate.
\* text starts with YYYY-MM-DD.
DateValue(text, offset) ==
  With(<< DecValue(SubSeq(text, 1, 4)), DecValue(SubSeq(text, 6, 7)),
          DecValue(SubSeq(text, 9, 10)), Drop(text, 10) >>,
       LAMBDA f :
         \* f is <<year, month, day, the text after the date>>
         IF ~(f[2] \in 1..12 /\ f[3] \in 1..DaysInMonth(f[1], f[2]))
         THEN InvalidDate
         ELSE IF f[4] = <<>> THEN <<f[1], f[2], f[3], 0>>
         ELSE IF ~HasTime(f[4]) THEN InvalidDate
         ELSE With(HasSeconds(f[4]), LAMBDA sec :
           With(IF sec THEN SecondsFraction(Drop(f[4], 9)) ELSE <<>>,
                LAMBDA fraction :
             With(Drop(f[4], (IF sec THEN 9 ELSE 6)
                               + (IF fraction = <<>> THEN 0
                                  ELSE 1 + Len(fraction))),
                  LAMBDA zone :
                    IF ~IsZone(zone) THEN InvalidDate
                    ELSE DateAt(f[1], f[2], f[3],
                                TimeOfDay(f[4], sec, fraction, zone, offset))))))

\* /[ 0-9TZ.:-]/
DateChars == Digits \cup {SPACE, 84, 90, DOT, COLON, MINUS}

\* String.prototype.trim for spaces.
RECURSIVE trim(_)
trim(s) ==
  IF s # <<>> /\ s[1] = SPACE THEN trim(Tail(s))
  ELSE IF s # <<>> /\ s[Len(s)] = SPACE THEN trim(SubSeq(s, 1, Len(s) - 1))
  ELSE s

\* /^\d{4}-\d{2}-\d{2}/
IsDatePrefix(s) ==
  /\ Len(s) = 10
  /\ \A i \in {1, 2, 3, 4, 6, 7, 9, 10} : s[i] \in Digits
  /\ s[5] = MINUS /\ s[8] = MINUS

DateTime(src, pos) ==
  With(nextUntilChar(src, pos, TRUE, FALSE), LAMBDA a :
    IF a.st = "throw" THEN a
    ELSE IF ~IsDatePrefix(slice(src, a.pos, 0, 10)) THEN failure(a.pos)
    ELSE With(SkipClass(DateChars, src, a.pos + 10), LAMBDA q :
           With(DateValue(trim(slice(src, a.pos, 0, q - a.pos)), timezone),
                LAMBDA date :
                  IF date = InvalidDate
                  THEN TOMLParseError("Invalid date string",
                                      slice(src, a.pos, 0, q - a.pos), q)
                  ELSE success(DateOf(date), q))))

\* /^(\d{2}):(\d{2}):(\d{2})/
IsTimePrefix(s) ==
  /\ Len(s) = 8
  /\ \A i \in {1, 2, 4, 5, 7, 8} : s[i] \in Digits
  /\ s[3] = COLON /\ s[6] = COLON

LocalTime(src, pos) ==
  With(nextUntilChar(src, pos, TRUE, FALSE), LAMBDA a :
    IF a.st = "throw" THEN a
    ELSE IF ~IsTimePrefix(slice(src, a.pos, 0, 8)) THEN failure(a.pos)
    ELSE IF char(src, a.pos, 8) # DOT
    THEN success(Str(slice(src, a.pos, 0, 8)), a.pos + 8)
    ELSE With(SkipClass(Digits, src, a.pos + 9), LAMBDA q :
           success(Str(slice(src, a.pos, 0, q - a.pos)), q)))

\* The parsers the source builds with the combinators.
DottedKey ==
  join(or(<<Fn("BareKey"), Fn("BasicString"), Fn("LiteralString")>>), <<DOT>>)
Value ==
  or(<< Fn("MultilineBasicString"), Fn("MultilineLiteralString"),
        Fn("BasicString"), Fn("LiteralString"), Fn("Symbols"), Fn("DateTime"),
        Fn("LocalTime"), Fn("Float"), Fn("Integer"), Fn("ArrayValue"),
        Fn("InlineTable") >>)
Pair == kv(DottedKey, <<EQUALS>>, Value)
TableHeader == surround(<<LBRACKET>>, DottedKey, <<RBRACKET>>)
TableArrayHeader ==
  surround(<<LBRACKET, LBRACKET>>, DottedKey, <<RBRACKET, RBRACKET>>)

\* ArrayValue that returns the list without asking for the closing bracket.
ArrayValueCloseUnasked(src, array, skip) ==
  CASE skip.st = "throw" -> skip
    [] skip.st # "throw" /\ char(src, skip.pos, 0) = RBRACKET ->
         success(Arr(array), skip.pos + 1)
    [] OTHER -> success(Arr(array), skip.pos)

\* ArrayValue after the last scanner.nextUntilChar() returned skip; array is
\* the list its while loop left.
ArrayValueClose(src, array, skip) ==
  CASE skip.st = "throw" -> skip
    [] skip.st # "throw" /\ char(src, skip.pos, 0) = RBRACKET ->
         success(Arr(array), skip.pos + 1)
    [] OTHER -> TOMLParseError("Array is not closed", <<>>, skip.pos)

\* ArrayValue after its while loop.
ArrayValueEnd(src, array, pos) ==
  ArrayValueClose(src, array, nextUntilChar(src, pos, FALSE, TRUE))

\* The while loop of ArrayValue and what follows it: array is the list so
\* far; then the body of the loop, after scanner.nextUntilChar() returned
\* skip, after Value(scanner) returned result, and after
\* scanner.nextUntilChar({inline: true}) returned after.
RECURSIVE ArrayValueLoop(_, _, _)
ArrayValueComma(src, array, after) ==
  CASE after.st = "throw" -> after
    [] after.st # "throw" /\ char(src, after.pos, 0) = COMMA ->
         ArrayValueLoop(src, after.pos + 1, array)
    [] OTHER -> ArrayValueEnd(src, array, after.pos)

ArrayValueResult(src, array, result) ==
  CASE result.st = "throw" -> result
    [] result.st = "fail" -> ArrayValueEnd(src, array, result.pos)
    [] OTHER -> ArrayValueComma(src, Append(array, result.body),
                                nextUntilChar(src, result.pos, TRUE, FALSE))

ArrayValueItem(src, array, skip) ==
  IF skip.st = "throw" THEN skip
  ELSE ArrayValueResult(src, array, Or(Value.parsers, src, skip.pos))

ArrayValueLoop(src, pos, array) ==
  IF eof(src, pos) THEN ArrayValueEnd(src, array, pos)
  ELSE ArrayValueItem(src, array, nextUntilChar(src, pos, FALSE, TRUE))

\* ArrayValue after scanner.nextUntilChar({inline: true}) returned a.
ArrayValueOpen(src, a) ==
  CASE a.st = "throw" -> a
    [] a.st # "throw" /\ char(src, a.pos, 0) # LBRACKET -> failure(a.pos)
    [] OTHER -> ArrayValueLoop(src, a.pos + 1, <<>>)

ArrayValue(src, pos) ==
  ArrayValueOpen(src, nextUntilChar(src, pos, TRUE, FALSE))

\* InlineTable after surround("{", join(Pair, ","), "}")(scanner) returned
\* pairs.
InlineTablePairs(pairs) ==
  CASE pairs.st = "throw" -> pairs
    [] pairs.st = "fail" -> failure(pairs.pos)
    [] OTHER -> success(MergeAll(EmptyObj, pairs.body.v), pairs.pos)

\* InlineTable after scanner.nextUntilChar() returned a.
InlineTableOpen(src, a) ==
  CASE a.st = "throw" -> a
    [] a.st # "throw" /\ char(src, a.pos, 1) = RBRACE ->
         success(EmptyObj, a.pos + 2)
    [] OTHER -> InlineTablePairs(Surround(<<LBRACE>>, join(Pair, <<COMMA>>),
                                          <<RBRACE>>, src, a.pos))

InlineTable(src, pos) ==
  InlineTableOpen(src, nextUntilChar(src, pos, FALSE, TRUE))

\* Block after merge(repeat(Pair))(scanner) returned result.
BlockResult(result) ==
  CASE result.st = "throw" -> result
    [] result.st = "ok" ->
         success([type |-> "Block", value |-> result.body], result.pos)
    [] OTHER -> failure(result.pos)

\* Block after scanner.nextUntilChar() returned a.
BlockOpen(src, a) ==
  IF a.st = "throw" THEN a ELSE BlockResult(Merge(repeat(Pair), src, a.pos))

Block(src, pos) == BlockOpen(src, nextUntilChar(src, pos, FALSE, TRUE))

\* Table and TableArray: type is "Table" with TableHeader, "TableArray" with
\* TableArrayHeader.  TableBlock is the function after Block(scanner) returned
\* block.
TableBlock(type, header, block) ==
  IF block.st = "throw" THEN block
  ELSE success([type |-> type, key |-> header.body,
                value |-> IF block.st = "ok" THEN block.body.value
                          ELSE EmptyObj],
               block.pos)

\* After the second scanner.nextUntilChar() returned b.
TableSkip(type, src, header, b) ==
  IF b.st = "throw" THEN b ELSE TableBlock(type, header, Block(src, b.pos))

\* After the header parser returned header.
TableHead(type, src, header) ==
  CASE header.st = "throw" -> header
    [] header.st = "fail" -> failure(header.pos)
    [] OTHER -> TableSkip(type, src, header,
                          nextUntilChar(src, header.pos, FALSE, TRUE))

\* After the first scanner.nextUntilChar() returned a.
TableOpen(type, headerParser, src, a) ==
  IF a.st = "throw" THEN a
  ELSE TableHead(type, src, Run(headerParser, src, a.pos))

TableOf(type, headerParser, src, pos) ==
  TableOpen(type, headerParser, src, nextUntilChar(src, pos, FALSE, TRUE))

Table(src, pos) == TableOf("Table", TableHeader, src, pos)
TableArray(src, pos) == TableOf("TableArray", TableArrayHeader, src, pos)

\* One turn of the for loop of Toml: body after block, or the exception.
TomlStep(body, block) ==
  IF block.type = "Block" THEN success(deepMerge(body, block.value), 0)
  ELSE deepAssignWithTable(body, block)

\* The for loop of Toml over the blocks: step is what the turn before them
\* returned.
RECURSIVE TomlLoop(_, _)
TomlLoop(step, blocks) ==
  CASE step.st = "throw" -> step
    [] step.st # "throw" /\ blocks = <<>> -> step
    [] OTHER -> TomlLoop(TomlStep(step.body, blocks[1]), Tail(blocks))

\* Toml after its for loop.
TomlEnd(blocks, loop) ==
  IF loop.st = "throw" THEN [loop EXCEPT !.pos = blocks.pos]
  ELSE success(loop.body, blocks.pos)

\* Toml after repeat(or([Block, TableArray, Table]))(scanner) returned blocks.
TomlBlocks(blocks) ==
  CASE blocks.st = "throw" -> blocks
    [] blocks.st = "fail" -> failure(blocks.pos)
    [] OTHER -> TomlEnd(blocks, TomlLoop(success(EmptyObj, 0), blocks.body.v))

\* or([Block, TableArray, Table]) of Toml.
TomlOr == or(<<Fn("Block"), Fn("TableArray"), Fn("Table")>>)

Toml(src, pos) == TomlBlocks(Repeat(TomlOr, src, pos))

Run(parser, src, pos) ==
  CASE parser.op = "or" -> Or(parser.parsers, src, pos)
    [] parser.op = "join" -> Join(parser.parser, parser.separator, src, pos)
    [] parser.op = "kv" ->
         Kv(parser.keyParser, parser.separator, parser.valueParser, src, pos)
    [] parser.op = "merge" -> Merge(parser.parser, src, pos)
    [] parser.op = "repeat" -> Repeat(parser.parser, src, pos)
    [] parser.op = "surround" ->
         Surround(parser.left, parser.parser, parser.right, src, pos)
    [] parser.op = "BareKey" -> BareKey(src, pos)
    [] parser.op = "BasicString" -> BasicString(src, pos)
    [] parser.op = "LiteralString" -> LiteralString(src, pos)
    [] parser.op = "MultilineBasicString" -> MultilineBasicString(src, pos)
    [] parser.op = "MultilineLiteralString" -> MultilineLiteralString(src, pos)
    [] parser.op = "Symbols" -> Symbols(src, pos)
    [] parser.op = "DateTime" -> DateTime(src, pos)
    [] parser.op = "LocalTime" -> LocalTime(src, pos)
    [] parser.op = "Float" -> Float(src, pos)
    [] parser.op = "Integer" -> Integer(src, pos)
    [] parser.op = "ArrayValue" -> ArrayValue(src, pos)
    [] parser.op = "InlineTable" -> InlineTable(src, pos)
    [] parser.op = "Block" -> Block(src, pos)
    [] parser.op = "Table" -> Table(src, pos)
    [] parser.op = "TableArray" -> TableArray(src, pos)
    [] parser.op = "Toml" -> Toml(src, pos)

\* String.prototype.split("\n"): the pieces between the line feeds, at least
\* one.
RECURSIVE split(_, _)
split(str, cur) ==
  IF str = <<>> THEN <<cur>>
  ELSE IF str[1] = LF THEN <<cur>> \o split(Tail(str), <<>>)
  ELSE split(Tail(str), Append(cur, str[1]))

\* The for loop of ParserFactory over the lines, which computes the column.
RECURSIVE ColumnLoop(_, _)
ColumnLoop(count, lines) ==
  IF lines = <<>> THEN count
  ELSE IF count > Len(lines[1])
  THEN ColumnLoop(count - (Len(lines[1]) + 1), Tail(lines))
  ELSE count

NoOutcome == [kind |-> "none"]

\* The TOMLParseError of ParserFactory, where subStr is
\* tomlString.slice(0, position).
ErrorAt(result, tomlString, subStr) ==
  [ kind |-> "TOMLParseError",
    row |-> Len(split(subStr, <<>>)),
    column |-> ColumnLoop(Len(subStr), split(subStr, <<>>)),
    detail |-> IF result.st = "throw" THEN result.err
               ELSE [name |-> "Error", msg |-> "Unexpected character",
                     arg |-> IF char(tomlString, result.pos, 0) = NoChar
                             THEN <<>>
                             ELSE <<char(tomlString, result.pos, 0)>>] ]

\* ParserFactory without the scanner.eof() test of its condition.
ParserFactoryWithoutEof(tomlString, result) ==
  IF result.st # "ok"
  THEN ErrorAt(result, tomlString, StringSlice(tomlString, 0, result.pos))
  ELSE [kind |-> "value", value |-> result.body]

\* The function ParserFactory(parser) returns, applied to tomlString, after
\* parser(scanner) returned or threw result: the error it throws, or the
\* value it returns.
ParserFactory(tomlString, result) ==
  IF result.st # "ok" \/ ~eof(tomlString, result.pos)
  THEN ErrorAt(result, tomlString, StringSlice(tomlString, 0, result.pos))
  ELSE [kind |-> "value", value |-> result.body]

\* parse(tomlString) of src/parse.js, ParserFactory(Toml): what it does.
parse(tomlString) == ParserFactory(tomlString, Run(Fn("Toml"), tomlString, 0))

(***************************************************************************)
(* The serializer (src/mod.js)                                             *)
(***************************************************************************)
\* Array.prototype.join on texts.
RECURSIVE JoinTexts(_, _)
JoinTexts(texts, sep) ==
  IF texts = <<>> THEN <<>>
  ELSE IF Len(texts) = 1 THEN texts[1]
  ELSE texts[1] \o sep \o JoinTexts(Tail(texts), sep)

\* The decimal digits of a non-negative integer.
RECURSIVE DigitsOf(_)
DigitsOf(n) ==
  IF n < 10 THEN <<ZERO + n>> ELSE Append(DigitsOf(n \div 10), ZERO + (n % 10))

Zeros(n) == [i \in 1..n |-> ZERO]

\* String.prototype.padStart(n, "0").
padStart(s, n) == Zeros(n - Len(s)) \o s

\* String.prototype.padEnd(n): spaces up to the length n.
padEnd(s, n) == s \o [i \in 1..(n - Len(s)) |-> SPACE]

\* The exponent part of a number in exponent notation.
ExponentString(ex) ==
  IF ex < 0 THEN <<LowerE, MINUS>> \o DigitsOf(0 - ex)
  ELSE <<LowerE, PLUS>> \o DigitsOf(ex)

\* The text of the positive number digits * 10^e, where k is the number of
\* digits and n the place of the decimal point in them.
DecimalStringAt(digits, k, n) ==
  IF k <= n /\ n <= 21 THEN digits \o Zeros(n - k)
  ELSE IF 0 < n /\ n <= 21
  THEN SubSeq(digits, 1, n) \o <<DOT>> \o SubSeq(digits, n + 1, k)
  ELSE IF 0 - 6 < n /\ n <= 0 THEN <<ZERO, DOT>> \o Zeros(0 - n) \o digits
  ELSE <<digits[1]>> \o (IF k > 1 THEN <<DOT>> \o Tail(digits) ELSE <<>>)
         \o ExponentString(n - 1)

DecimalString(digits, e) == DecimalStringAt(digits, Len(digits), e + Len(digits))

\* `${value}` of a number (Number::toString of ECMAScript): the digits of the
\* mantissa with the decimal point after place n, exponent notation outside
\* of -6 < n <= 21.
NumberToString(value) ==
  CASE value.v[1] = 1 -> Text(<<"I", "n", "f", "i", "n", "i", "t", "y">>)
    [] value.v[1] = 0 - 1 ->
         Text(<<"-", "I", "n", "f", "i", "n", "i", "t", "y">>)
    [] value.v[1] = 2 -> Text(<<"N", "a", "N">>)
    [] value.v[1] = 0 /\ value.v[2] = 0 -> <<ZERO>>
    [] value.v[1] = 0 /\ value.v[2] < 0 ->
         <<MINUS>> \o DecimalString(DigitsOf(0 - value.v[2]), value.v[3])
    [] OTHER -> DecimalString(DigitsOf(value.v[2]), value.v[3])

\* JSON.stringify of one character of a string.
QuoteJSONChar(c) ==
  CASE c = QUOTE -> <<BACKSLASH, QUOTE>>
    [] c = BACKSLASH -> <<BACKSLASH, BACKSLASH>>
    [] c = BS -> <<BACKSLASH, 98>>   \* \b
    [] c = TAB -> <<BACKSLASH, 116>> \* \t
    [] c = LF -> <<BACKSLASH, 110>>  \* \n
    [] c = FF -> <<BACKSLASH, 102>>  \* \f
    [] c = CR -> <<BACKSLASH, 114>>  \* \r
    [] c < SPACE /\ c \notin {BS, TAB, LF, FF, CR} ->
         <<BACKSLASH, 117>> \o padStart(ToHex(c), 4)
    [] OTHER -> <<c>>

\* JSON.stringify of a string (the texts of the model hold no surrogates).
RECURSIVE QuoteJSONString(_)
QuoteJSONString(str) ==
  IF str = <<>> THEN <<>>
  ELSE QuoteJSONChar(str[1]) \o QuoteJSONString(Tail(str))

JSONString(str) == <<QUOTE>> \o QuoteJSONString(str) \o <<QUOTE>>

\* The date and the time of a date as Date.prototype.toISOString and
\* printDate write them, after the year: -MM-DDTHH:mm:ss.sss
MonthToMs(value) ==
  <<MINUS>> \o padStart(DigitsOf(value.v[2]), 2)
    \o <<MINUS>> \o padStart(DigitsOf(value.v[3]), 2)
    \o <<84>> \o padStart(DigitsOf(value.v[4] \div 3600000), 2)
    \o <<COLON>> \o padStart(DigitsOf((value.v[4] \div 60000) % 60), 2)
    \o <<COLON>> \o padStart(DigitsOf((value.v[4] \div 1000) % 60), 2)
    \o <<DOT>> \o padStart(DigitsOf(value.v[4] % 1000), 3)

\* Date.prototype.toISOString, for the years 0 to 9999.
toISOString(value) ==
  padStart(DigitsOf(value.v[1]), 4) \o MonthToMs(value) \o <<90>>

\* JSON.stringify(value) for the values the parser builds.
RECURSIVE JSONStringify(_)
JSONStringify(value) ==
  CASE value.t = "string" -> JSONString(value.v)
    [] value.t = "number" ->
         IF value.v[1] = 0 THEN NumberToString(value)
         ELSE Text(<<"n", "u", "l", "l">>)
    [] value.t = "boolean" ->
         IF value.v THEN Text(<<"t", "r", "u", "e">>)
         ELSE Text(<<"f", "a", "l", "s", "e">>)
    [] value.t = "date" -> JSONString(toISOString(value))
    [] value.t = "array" ->
         <<LBRACKET>>
           \o JoinTexts([i \in 1..Len(value.v) |-> JSONStringify(value.v[i])],
                        <<COMMA>>)
           \o <<RBRACKET>>
    [] value.t = "object" ->
         <<LBRACE>>
           \o JoinTexts([i \in 1..Len(value.v) |->
                           JSONString(value.v[i].k) \o <<COLON>>
                             \o JSONStringify(value.v[i].v)],
                        <<COMMA>>)
           \o <<RBRACE>>

\* The test of joinKeys without str.length === 0.
IsBareKeyTextOrEmpty(str) == \A i \in 1..Len(str) : str[i] \in BARE_KEY

\* Whether a key needs no quotes: /[^A-Za-z0-9_-]/ does not match it and it
\* is not empty.
IsBareKeyText(str) == str # <<>> /\ \A i \in 1..Len(str) : str[i] \in BARE_KEY

joinKeys(keys) ==
  JoinTexts([i \in 1..Len(keys) |->
               IF IsBareKeyText(keys[i]) THEN keys[i] ELSE JSONString(keys[i])],
            <<DOT>>)

isPrimitive(value) == value.t \in {"date", "string", "number", "boolean"}

doGetTypeOfArray(arr) ==
  IF Len(arr.v) = 0 THEN "ONLY_PRIMITIVE"
  ELSE IF arr.v[1].t = "array" THEN "MIXED"
  ELSE IF \E i \in 2..Len(arr.v) :
            \/ isPrimitive(arr.v[1]) # isPrimitive(arr.v[i])
            \/ arr.v[i].t = "array"
  THEN "MIXED"
  ELSE IF isPrimitive(arr.v[1]) THEN "ONLY_PRIMITIVE"
  ELSE "ONLY_OBJECT_EXCLUDING_ARRAY"

\* The cache of getTypeOfArray holds what doGetTypeOfArray returned.
getTypeOfArray(arr) == doGetTypeOfArray(arr)

\* #isSimplySerializable when it takes every value for a simple one: the
\* properties keep their order.
isAlwaysSerializable(value) == TRUE

isSimplySerializable(value) ==
  \/ value.t \in {"string", "number", "boolean", "date"}
  \/ value.t = "array" /\ getTypeOfArray(value) # "ONLY_OBJECT_EXCLUDING_ARRAY"

header(keys) == <<LBRACKET>> \o joinKeys(keys) \o <<RBRACKET>>
\* #headerGroup with the brackets of #header.
headerGroupAsTable(keys) == <<LBRACKET>> \o joinKeys(keys) \o <<RBRACKET>>

headerGroup(keys) ==
  <<LBRACKET, LBRACKET>> \o joinKeys(keys) \o <<RBRACKET, RBRACKET>>

\* declaration(keys): the text, and maxPad after the call.
declaration(keys, maxPad) ==
  With(joinKeys(keys), LAMBDA title :
    [ text |-> title \o <<SPACE, EQUALS, SPACE>>,
      maxPad |-> IF Len(title) > maxPad THEN Len(title) ELSE maxPad ])

printDate(value) == DigitsOf(value.v[1]) \o MonthToMs(value)

\* #numberDeclaration without the cases of Infinity and -Infinity.
NumberDeclarationDefault(value) == NumberToString(value)

\* What follows the declaration in the line of a number.
NumberDeclarationText(value) ==
  IF value = Infinity THEN Text(<<"i", "n", "f">>)
  ELSE IF value = NegInfinity THEN Text(<<"-", "i", "n", "f">>)
  ELSE NumberToString(value)

arrayDeclaration(keys, value, maxPad) ==
  [declaration(keys, maxPad) EXCEPT !.text = @ \o JSONStringify(value)]
strDeclaration(keys, value, maxPad) ==
  [declaration(keys, maxPad) EXCEPT !.text = @ \o JSONString(value.v)]
numberDeclaration(keys, value, maxPad) ==
  [declaration(keys, maxPad) EXCEPT !.text = @ \o NumberDeclarationText(value)]
boolDeclaration(keys, value, maxPad) ==
  [declaration(keys, maxPad) EXCEPT !.text = @ \o JSONStringify(value)]
dateDeclaration(keys, value, maxPad) ==
  [declaration(keys, maxPad) EXCEPT !.text = @ \o printDate(value)]

\* printAsInlineValue(value), as the text the caller makes of it.
RECURSIVE printAsInlineValue(_)
printAsInlineValue(value) ==
  CASE value.t = "date" -> <<QUOTE>> \o printDate(value) \o <<QUOTE>>
    [] value.t = "string" -> JSONString(value.v)
    [] value.t = "number" -> NumberToString(value)
    [] value.t = "boolean" -> JSONStringify(value)
    [] value.t = "array" ->
         <<LBRACKET>>
           \o JoinTexts([i \in 1..Len(value.v) |-> printAsInlineValue(value.v[i])],
                        <<COMMA>>)
           \o <<RBRACKET>>
    [] value.t = "object" ->
         <<LBRACE>>
           \o JoinTexts([i \in 1..Len(value.v) |->
                           joinKeys(<<value.v[i].k>>) \o <<SPACE, EQUALS, SPACE>>
                             \o printAsInlineValue(value.v[i].v)],
                        <<COMMA>>)
           \o <<RBRACE>>

\* Array.prototype.filter on the keys of obj.
RECURSIVE FilterProps(_, _, _)
FilterProps(obj, props, simple) ==
  IF props = <<>> THEN <<>>
  ELSE (IF isSimplySerializable(Get(obj, props[1])) = simple
        THEN <<props[1]>> ELSE <<>>) \o FilterProps(obj, Tail(props), simple)

\* printObject(obj, keys): out, and maxPad after the call.  PrintProps is
\* its loop over sortedProps, PrintGroup its loop over an array of objects.
RECURSIVE printObject(_, _, _)
RECURSIVE PrintProps(_, _, _, _)
RECURSIVE PrintGroup(_, _, _)
RECURSIVE PrintProp(_, _, _, _)

\* out.push(line): d is what a declaration returned.
PushLine(state, d) == [out |-> Append(state.out, d.text), maxPad |-> d.maxPad]

\* out.push(""), out.push(title) and out.push(...printObject(...)): inner is
\* what printObject returned.
PushTable(state, title, inner) ==
  [out |-> state.out \o <<<<>>, title>> \o inner.out, maxPad |-> inner.maxPad]

\* One turn of the second loop of printObject, for the property prop of
\* value value.
PrintProp(prop, value, keys, state) ==
  CASE value.t = "date" ->
         PushLine(state, dateDeclaration(<<prop>>, value, state.maxPad))
    [] value.t = "string" ->
         PushLine(state, strDeclaration(<<prop>>, value, state.maxPad))
    [] value.t = "number" ->
         PushLine(state, numberDeclaration(<<prop>>, value, state.maxPad))
    [] value.t = "boolean" ->
         PushLine(state, boolDeclaration(<<prop>>, value, state.maxPad))
    [] value.t = "array" ->
         With(getTypeOfArray(value), LAMBDA arrayType :
           IF arrayType = "ONLY_PRIMITIVE"
           THEN PushLine(state, arrayDeclaration(<<prop>>, value, state.maxPad))
           ELSE IF arrayType = "ONLY_OBJECT_EXCLUDING_ARRAY"
           THEN PrintGroup(value.v, Append(keys, prop), state)
           ELSE PushLine(state,
                         [declaration(<<prop>>, state.maxPad)
                            EXCEPT !.text = @ \o printAsInlineValue(value)]))
    [] value.t = "object" ->
         PushTable(state, header(Append(keys, prop)),
                   printObject(value, Append(keys, prop), state.maxPad))
    [] OTHER -> state

PrintGroup(elements, keys, state) ==
  IF elements = <<>> THEN state
  ELSE PrintGroup(Tail(elements), keys,
                  PushTable(state, headerGroup(keys),
                            printObject(elements[1], keys, state.maxPad)))

PrintProps(obj, props, keys, state) ==
  IF props = <<>> THEN state
  ELSE PrintProps(obj, Tail(props), keys,
                  PrintProp(props[1], Get(obj, props[1]), keys, state))

printObject(obj, keys, maxPad) ==
  With(PrintProps(obj,
                  FilterProps(obj, Keys(obj), TRUE)
                    \o FilterProps(obj, Keys(obj), FALSE),
                  keys, [out |-> <<>>, maxPad |-> maxPad]),
       LAMBDA state : [out |-> Append(state.out, <<>>), maxPad |-> state.maxPad])

\* m[1] of rDeclaration.exec(l) for /^(\".*\"|[^=]*)\s=/, the empty text when
\* there is no match: a quote up to the last quote that a white space and
\* "=" follow, else the text before the white space in front of the first
\* "=".
DeclarationMatch(l) ==
  With(<< {j \in 2..(Len(l) - 2) :
             /\ l[1] = QUOTE /\ l[j] = QUOTE
             /\ l[j + 1] \in RegexWhiteSpace /\ l[j + 2] = EQUALS
             /\ \A i \in 2..(j - 1) : l[i] \notin {LF, CR}},
          {e \in 1..Len(l) : l[e] = EQUALS /\ \A f \in 1..(e - 1) : l[f] # EQUALS} >>,
       LAMBDA m :
         \* m is <<where the quoted key can end, where the first "=" is>>
         IF m[1] # {}
         THEN SubSeq(l, 1, CHOOSE j \in m[1] : \A i \in m[1] : i <= j)
         ELSE IF \E e \in m[2] : e >= 2 /\ l[e - 1] \in RegexWhiteSpace
         THEN SubSeq(l, 1, (CHOOSE e \in m[2] : TRUE) - 2)
         ELSE <<>>)

\* What String.prototype.replace puts in for a replacement text when the
\* pattern is a string found at the start: "$$" stands for "$", "$&" for the
\* text matched, "$`" for the text before it (none) and "$'" for the text
\* after it.
RECURSIVE GetSubstitution(_, _, _)
GetSubstitution(replacement, matched, after) ==
  IF replacement = <<>> THEN <<>>
  ELSE IF replacement[1] = DOLLAR /\ Len(replacement) >= 2
          /\ replacement[2] \in {DOLLAR, AMPERSAND, BACKTICK, APOSTROPHE}
  THEN (CASE replacement[2] = DOLLAR -> <<DOLLAR>>
          [] replacement[2] = AMPERSAND -> matched
          [] replacement[2] = BACKTICK -> <<>>
          [] replacement[2] = APOSTROPHE -> after)
         \o GetSubstitution(Tail(Tail(replacement)), matched, after)
  ELSE <<replacement[1]>> \o GetSubstitution(Tail(replacement), matched, after)

\* l.replace(m[1], m[1].padEnd(maxPad)) when rDeclaration matches and m[1]
\* is not empty, else l; m is m[1], which l starts with.
Aligned(l, m, maxPad) ==
  IF m = <<>> THEN l
  ELSE IF \A i \in 1..Len(m) : m[i] # DOLLAR
  THEN padEnd(m, maxPad) \o SubSeq(l, Len(m) + 1, Len(l))
  ELSE GetSubstitution(padEnd(m, maxPad), m, SubSeq(l, Len(m) + 1, Len(l)))
         \o SubSeq(l, Len(m) + 1, Len(l))

\* The first loop of format, from the line at index i (from 0).
RECURSIVE FormatLoop(_, _, _, _)
FormatLoop(lines, i, maxPad, keyAlignment) ==
  IF i >= Len(lines) THEN <<>>
  ELSE IF /\ Len(lines[i + 1]) >= 1 /\ lines[i + 1][1] = LBRACKET
          /\ ~(Len(lines[i + 1]) >= 2 /\ lines[i + 1][2] = LBRACKET)
  THEN IF /\ i + 2 <= Len(lines) /\ lines[i + 2] = <<>>
          /\ i + 3 <= Len(lines)
          /\ StringSlice(lines[i + 3], 0, Len(lines[i + 1]))
               = SubSeq(lines[i + 1], 1, Len(lines[i + 1]) - 1) \o <<DOT>>
       THEN FormatLoop(lines, i + 2, maxPad, keyAlignment)
       ELSE <<lines[i + 1]>> \o FormatLoop(lines, i + 1, maxPad, keyAlignment)
  ELSE IF keyAlignment
  THEN <<Aligned(lines[i + 1], DeclarationMatch(lines[i + 1]), maxPad)>>
         \o FormatLoop(lines, i + 1, maxPad, keyAlignment)
  ELSE <<lines[i + 1]>> \o FormatLoop(lines, i + 1, maxPad, keyAlignment)

\* The second loop of format: an empty line goes when the next one is empty.
RECURSIVE CleanLoop(_)
CleanLoop(out) ==
  IF out = <<>> THEN <<>>
  ELSE IF out[1] = <<>> /\ Len(out) >= 2 /\ out[2] = <<>> THEN CleanLoop(Tail(out))
  ELSE <<out[1]>> \o CleanLoop(Tail(out))

format(lines, maxPad, keyAlignment) ==
  CleanLoop(FormatLoop(lines, 0, maxPad, keyAlignment))

\* Dumper.dump(fmtOptions) of new Dumper(srcObj).
dump(srcObj, keyAlignment) ==
  With(printObject(srcObj, <<>>, 0), LAMBDA printed :
    format(printed.out, printed.maxPad, keyAlignment))

stringify(srcObj, keyAlignment) == JoinTexts(dump(srcObj, keyAlignment), <<LF>>)

\* Deep equality of two values, as assertEquals of the test suite sees it:
\* objects by their keys whatever the order, arrays element by element, NaN
\* equal to NaN.
RECURSIVE DeepEqual(_, _)
DeepEqual(a, b) ==
  /\ a.t = b.t
  /\ CASE a.t = "object" ->
            /\ Len(a.v) = Len(b.v)
            /\ \A i \in 1..Len(a.v) :
                 /\ HasOwn(b, a.v[i].k)
                 /\ DeepEqual(a.v[i].v, Get(b, a.v[i].k))
       [] a.t = "array" ->
            /\ Len(a.v) = Len(b.v)
            /\ \A i \in 1..Len(a.v) : DeepEqual(a.v[i], b.v[i])
       [] OTHER -> a.v = b.v

(***************************************************************************)
(* The calls: parse(source), then stringify of the value it returned, then *)
(* parse of the text stringify returned.                                   *)
(***************************************************************************)
vars ==
  << timezone, source, position, pc, parsed, outcome, srcObject, fmtOptions,
     output, tomlBlocks, tomlIndex, tomlBody >>

\* The hosts: UTC, and one hour behind it.
TimeZones == {0, 60}

NoResult == [st |-> "none"]

\* The state before the first call, for the texts of a set.
InitWith(texts) ==
  /\ timezone \in TimeZones
  /\ source \in texts
  /\ position = 0
  /\ pc = "start"
  /\ parsed = NoResult
  /\ outcome = NoOutcome
  /\ srcObject = Undefined
  /\ fmtOptions = FALSE
  /\ output = <<>>
  /\ tomlBlocks = <<>>
  /\ tomlIndex = 0
  /\ tomlBody = EmptyObj

\* parse(source).
Parse ==
  /\ pc = "start"
  /\ \E result \in {Toml(source, 0)} :
       /\ parsed' = result
       /\ position' = result.pos
       /\ outcome' = ParserFactory(source, result)
  /\ srcObject' = IF outcome'.kind = "value" THEN outcome'.value ELSE Undefined
  /\ pc' = "parse"
  /\ UNCHANGED <<timezone, source, fmtOptions, output, tomlBlocks, tomlIndex,
                 tomlBody>>

\* stringify(srcObject, {keyAlignment}).
Stringify ==
  /\ pc = "parse"
  /\ outcome.kind = "value"
  /\ \E keyAlignment \in BOOLEAN :
       /\ fmtOptions' = keyAlignment
       /\ output' = stringify(srcObject, keyAlignment)
  /\ pc' = "stringify"
  /\ UNCHANGED <<timezone, source, position, parsed, outcome, srcObject, tomlBlocks,
                 tomlIndex, tomlBody>>

\* parse(output).
ParseAgain ==
  /\ pc = "stringify"
  /\ source' = output
  /\ \E result \in {Toml(output, 0)} :
       /\ parsed' = result
       /\ position' = result.pos
       /\ outcome' = ParserFactory(output, result)
  /\ pc' = "reparse"
  /\ UNCHANGED <<timezone, srcObject, fmtOptions, output, tomlBlocks, tomlIndex,
                 tomlBody>>

Next == Parse \/ Stringify \/ ParseAgain

\* The documents of Spec: up to MaxLines lines, each one of Lines.
MaxLines == 2
Lines ==
  { Text(<<"a", " ", "=", " ", "1">>),
    Text(<<"a", " ", "=", " ", "n", "a", "n">>),
    Text(<<"b", " ", "=", " ", "-", "i", "n", "f">>),
    Text(<<"s", " ", "=", " ", "\"", "x", " ", "y", "\"">>),
    Text(<<"h", " ", "=", " ", "0", "x", "f", "f">>),
    Text(<<"t", " ", "=", " ", "0", "7", ":", "3", "2", ":", "0", "0">>),
    Text(<<"d", " ", "=", " ", "1", "9", "7", "9", "-", "0", "5", "-", "2", "7", "T", "0", "7", ":", "3", "2", ":", "0", "0", "Z">>),
    Text(<<"d", " ", "=", " ", "1", "9", "7", "9", "-", "0", "5", "-", "2", "7">>),
    Text(<<"l", " ", "=", " ", "[", "1", ",", " ", "2", ".", "5", "]">>),
    Text(<<"l", " ", "=", " ", "[", "i", "n", "f", "]">>),
    Text(<<"m", " ", "=", " ", "[", "[", "1", "]", ",", " ", "{", "x", " ", "=", " ", "1", "}", "]">>),
    Text(<<"[", "t", "]">>),
    Text(<<"[", "t", ".", "u", "]">>),
    Text(<<"[", "[", "g", "]", "]">>),
    Text(<<"c", ".", "d", " ", "=", " ", "t", "r", "u", "e">>),
    Text(<<"e", " ", "=", " ", "-", "1", ".", "5", "e", "3">>),
    Text(<<"x">>),
    Text(<<"#", " ", "c">>),
    Text(<<"a", " ", "=">>),
    Text(<<"=">>),
    <<>> }

RECURSIVE LinesUpTo(_)
LinesUpTo(n) ==
  IF n = 0 THEN {<<>>}
  ELSE LinesUpTo(n - 1)
         \cup {Append(ls, l) : ls \in LinesUpTo(n - 1), l \in Lines}

Documents == {JoinTexts(ls, <<LF>>) : ls \in LinesUpTo(MaxLines)}

Init == InitWith(Documents)
Spec == Init /\ [][Next]_vars

(***************************************************************************)
(* The contract of parse and stringify, under Spec.                        *)
(***************************************************************************)

\* C1: for every text parse accepts, parse accepts stringify of the value it
\* returned, and returns a value deeply equal to the first one.
RoundTrip ==
  pc = "reparse" =>
    /\ outcome.kind = "value"
    /\ DeepEqual(outcome.value, srcObject)

\* C2: parse returns a value only when the grammar matched without an error
\* and the scanner is at the end of the text, and raises a TOMLParseError
\* and returns nothing otherwise; when the grammar returns before the end of
\* the text, the error is "Unexpected character" with the character at the
\* scanner's position.
AllOrNothing ==
  pc \in {"parse", "reparse"} =>
    /\ outcome.kind \in {"value", "TOMLParseError"}
    /\ outcome.kind = "value" =>
         /\ parsed.st = "ok"
         /\ position = Len(source)
         /\ outcome.value = parsed.body
    /\ (pc = "parse" /\ outcome.kind = "TOMLParseError") =>
         srcObject = Undefined
    /\ (parsed.st # "throw" /\ position < Len(source)) =>
         /\ outcome.kind = "TOMLParseError"
         /\ outcome.detail.msg = "Unexpected character"
         /\ outcome.detail.arg = <<source[position + 1]>>

\* The grammar matched and returned before the end of the text.
StoppedBeforeEnd ==
  /\ pc = "parse"
  /\ parsed.st = "ok"
  /\ position < Len(source)
  /\ outcome.kind = "TOMLParseError"

\* The newline characters of a text.
NewLines(str) == {i \in 1..Len(str) : str[i] = LF}

\* The characters of a text after its last newline character.
SinceNewLine(str) ==
  Len(str) - (IF NewLines(str) = {} THEN 0
              ELSE CHOOSE i \in NewLines(str) : \A j \in NewLines(str) : j <= i)

\* The position of the n-th newline character of a text: 0 for n = 0, and
\* one past the end of the text when it has fewer.
BreakAt(str, n) ==
  IF n = 0 THEN 0
  ELSE IF n > Cardinality(NewLines(str)) THEN Len(str) + 1
  ELSE CHOOSE b \in NewLines(str) :
         Cardinality({c \in NewLines(str) : c <= b}) = n

\* The lines of a text: what stands between its newline characters.
TextLines(str) ==
  [n \in 1..(Cardinality(NewLines(str)) + 1) |->
     SubSeq(str, BreakAt(str, n - 1) + 1, BreakAt(str, n) - 1)]

\* C3: every error of parse carries the line and the column of the scanner's
\* position, both counted from 1.
OneBasedLineAndColumn ==
  (pc \in {"parse", "reparse"} /\ outcome.kind = "TOMLParseError") =>
    /\ outcome.row = 1 + Cardinality(NewLines(SubSeq(source, 1, position)))
    /\ outcome.column = 1 + SinceNewLine(SubSeq(source, 1, position))
    /\ outcome.row >= 1
    /\ outcome.column >= 1

(***************************************************************************)
(* Toml, one block at a time: the call of repeat(...), the turns of the    *)
(* for loop over the blocks, and the return.                               *)
(***************************************************************************)

\* const blocks = repeat(or([Block, TableArray, Table]))(scanner), and the
\* return of failure() or the exception when there are no blocks.
TomlRepeat ==
  /\ pc = "start"
  /\ \E blocks \in {Repeat(TomlOr, source, 0)} :
       /\ position' = blocks.pos
       /\ IF blocks.st = "ok"
          THEN /\ tomlBlocks' = blocks.body.v
               /\ parsed' = NoResult
               /\ pc' = "blocks"
          ELSE /\ tomlBlocks' = <<>>
               /\ parsed' = TomlBlocks(blocks)
               /\ pc' = "return"
  /\ tomlIndex' = 0
  /\ tomlBody' = EmptyObj
  /\ UNCHANGED <<timezone, source, outcome, srcObject, fmtOptions, output>>

\* One turn of the for loop of Toml, on the block after the tomlIndex blocks
\* already folded into tomlBody.
TomlFor ==
  /\ pc = "blocks"
  /\ tomlIndex < Len(tomlBlocks)
  /\ \E step \in {TomlStep(tomlBody, tomlBlocks[tomlIndex + 1])} :
       IF step.st = "ok"
       THEN /\ tomlBody' = step.body
            /\ tomlIndex' = tomlIndex + 1
            /\ UNCHANGED <<parsed, pc>>
       ELSE /\ parsed' = [step EXCEPT !.pos = position]
            /\ pc' = "return"
            /\ UNCHANGED <<tomlBody, tomlIndex>>
  /\ UNCHANGED <<timezone, source, position, outcome, srcObject, fmtOptions,
                 output, tomlBlocks>>

\* return success(body).
TomlReturn ==
  /\ pc = "blocks"
  /\ tomlIndex = Len(tomlBlocks)
  /\ parsed' = success(tomlBody, position)
  /\ pc' = "return"
  /\ UNCHANGED <<timezone, source, position, outcome, srcObject, fmtOptions,
                 output, tomlBlocks, tomlIndex, tomlBody>>

NextFold == TomlRepeat \/ TomlFor \/ TomlReturn

\* The documents of SpecFold: up to MaxFoldLines lines, each one of FoldLines.
MaxFoldLines == 4
FoldLines ==
  { Text(<<"[", "[", "g", "]", "]">>),
    Text(<<"[", "g", ".", "s", "]">>),
    Text(<<"[", "[", "g", ".", "s", "]", "]">>),
    Text(<<"[", "g", "]">>),
    Text(<<"[", "[", "h", "]", "]">>),
    Text(<<"x", " ", "=", " ", "1">>),
    Text(<<"y", " ", "=", " ", "2">>) }

RECURSIVE FoldLinesUpTo(_)
FoldLinesUpTo(n) ==
  IF n = 0 THEN {<<>>}
  ELSE FoldLinesUpTo(n - 1)
         \cup {Append(ls, l) : ls \in FoldLinesUpTo(n - 1), l \in FoldLines}

FoldDocuments == {JoinTexts(ls, <<LF>>) : ls \in FoldLinesUpTo(MaxFoldLines)}

InitFold == InitWith(FoldDocuments) /\ timezone = 0
SpecFold == InitFold /\ [][NextFold]_vars

(***************************************************************************)
(* Arrays of tables, under SpecFold.                                       *)
(***************************************************************************)

\* The keys of the documents of SpecFold.
FoldKeys == {Text(<<"g">>), Text(<<"h">>), Text(<<"s">>), Text(<<"x">>),
             Text(<<"y">>)}

\* block is the declaration [[k]].
IsAppend(block, k) ==
  /\ block.type = "TableArray"
  /\ Len(block.key.v) = 1
  /\ block.key.v[1].v = k

\* block declares k or something under k.
Declares(block, k) ==
  IF block.type = "Block" THEN HasOwn(block.value, k)
  ELSE block.key.v[1].v = k

\* The declarations [[k]] among the blocks folded so far, and the n-th one.
AppendsOf(k) == {i \in 1..tomlIndex : IsAppend(tomlBlocks[i], k)}

NthAppend(k, n) ==
  CHOOSE i \in AppendsOf(k) : Cardinality({j \in AppendsOf(k) : j <= i}) = n

\* C4: when the blocks folded so far declare [[k]] n >= 1 times and k in no
\* other way, the root maps k to the sequence of the n block values, in the
\* order of the declarations.
ArrayOfTablesAccumulates ==
  pc = "blocks" =>
    \A k \in FoldKeys :
      ( /\ AppendsOf(k) # {}
        /\ \A i \in 1..tomlIndex :
             Declares(tomlBlocks[i], k) => IsAppend(tomlBlocks[i], k) ) =>
        /\ Get(tomlBody, k).t = "array"
        /\ Len(Get(tomlBody, k).v) = Cardinality(AppendsOf(k))
        /\ \A n \in 1..Cardinality(AppendsOf(k)) :
             Get(tomlBody, k).v[n] = tomlBlocks[NthAppend(k, n)].value

\* [[g]] was folded three times, with different block values.
ThreeAppends ==
  /\ pc = "blocks"
  /\ Cardinality(AppendsOf(Text(<<"g">>))) = 3
  /\ \A i \in 1..tomlIndex : IsAppend(tomlBlocks[i], Text(<<"g">>))
  /\ Len(Get(tomlBody, Text(<<"g">>)).v) = 3
  /\ Get(tomlBody, Text(<<"g">>)).v[1] # Get(tomlBody, Text(<<"g">>)).v[3]

\* The turn of the for loop that folds block into body: a table or a table
\* array whose first key segment names a sequence of the root, and which is
\* not the declaration [[k]] of one more element.
IntoSequence(block, body) ==
  /\ pc = "blocks"
  /\ pc' = "blocks"
  /\ tomlIndex' = tomlIndex + 1
  /\ block.type \in {"Table", "TableArray"}
  /\ Get(body, block.key.v[1].v).t = "array"
  /\ ~IsAppend(block, block.key.v[1].v)

\* The elements of the sequence at k before the last are the same in after
\* as in before, the last has the key sub, and the rest of the root is the
\* same.
OnlyLastChanged(before, after, k, sub) ==
  /\ Get(after, k).t = "array"
  /\ Len(Get(after, k).v) = Len(Get(before, k).v)
  /\ \A n \in 1..(Len(Get(before, k).v) - 1) :
       Get(after, k).v[n] = Get(before, k).v[n]
  /\ HasOwn(Get(after, k).v[Len(Get(after, k).v)], sub)
  /\ \A n \in 1..Len(before.v) :
       before.v[n].k # k => Get(after, before.v[n].k) = before.v[n].v
  /\ Len(after.v) = Len(before.v)

\* C5: a table or table array declared under a key that names a sequence is
\* assigned into the last element of the sequence, with the rest of its key;
\* the earlier elements stay as they are.
AttachesToLast ==
  [][ IntoSequence(tomlBlocks[tomlIndex + 1], tomlBody) =>
        OnlyLastChanged(tomlBody, tomlBody', tomlBlocks[tomlIndex + 1].key.v[1].v,
                        tomlBlocks[tomlIndex + 1].key.v[2].v) ]_vars

\* [[g]], [[g]] and [g.s] were folded: s is in the second element only.
SubTableInSecond ==
  /\ pc = "blocks"
  /\ tomlIndex = 3
  /\ tomlBlocks[3].type = "Table"
  /\ Len(tomlBlocks[3].key.v) = 2
  /\ Get(tomlBody, Text(<<"g">>)).t = "array"
  /\ Len(Get(tomlBody, Text(<<"g">>)).v) = 2
  /\ ~HasOwn(Get(tomlBody, Text(<<"g">>)).v[1], Text(<<"s">>))
  /\ HasOwn(Get(tomlBody, Text(<<"g">>)).v[2], Text(<<"s">>))

(***************************************************************************)
(* Pair and Block, called on the texts of one or two pairs.                *)
(***************************************************************************)

\* Pair(scanner) on a fresh scanner.
CallPair ==
  /\ pc = "start"
  /\ \E result \in {Run(Pair, source, 0)} :
       /\ parsed' = result
       /\ position' = result.pos
  /\ pc' = "Pair"
  /\ UNCHANGED <<timezone, source, outcome, srcObject, fmtOptions, output,
                 tomlBlocks, tomlIndex, tomlBody>>

\* Block(scanner) on a fresh scanner.
CallBlock ==
  /\ pc = "start"
  /\ \E result \in {Block(source, 0)} :
       /\ parsed' = result
       /\ position' = result.pos
  /\ pc' = "Block"
  /\ UNCHANGED <<timezone, source, outcome, srcObject, fmtOptions, output,
                 tomlBlocks, tomlIndex, tomlBody>>

NextPair == CallPair \/ CallBlock

\* Key segments: the text of the segment and the key it stands for.
Segment(text, key) == [text |-> text, key |-> key]
Segments ==
  { Segment(Text(<<"a">>), Text(<<"a">>)),
    Segment(Text(<<"b">>), Text(<<"b">>)),
    Segment(Text(<<"c", "1">>), Text(<<"c", "1">>)),
    Segment(Text(<<"\"", "t", ".", "a", "\"">>), Text(<<"t", ".", "a">>)),
    Segment(Text(<<"'", "d", ".", "e", "'">>), Text(<<"d", ".", "e">>)) }

\* Key paths of up to MaxSegments segments.
MaxSegments == 3
RECURSIVE PathsUpTo(_, _)
PathsUpTo(segments, n) ==
  IF n = 1 THEN {<<seg>> : seg \in segments}
  ELSE PathsUpTo(segments, n - 1)
         \cup {Append(path, seg) : path \in PathsUpTo(segments, n - 1),
                                   seg \in segments}

KeyPaths == PathsUpTo(Segments, MaxSegments)

\* Values: the text of the value and the value it stands for.
PairValues ==
  { [text |-> Text(<<"1">>), value |-> Num(1, 0)],
    [text |-> Text(<<"0">>), value |-> Num(0, 0)],
    [text |-> Text(<<"f", "a", "l", "s", "e">>), value |-> Bool(FALSE)],
    [text |-> Text(<<"\"", "\"">>), value |-> Str(<<>>)],
    [text |-> Text(<<"\"", "p", "u", "g", "\"">>),
     value |-> Str(Text(<<"p", "u", "g">>))],
    [text |-> Text(<<"{", " ", "t", ".", "n", " ", "=", " ", "0", " ", "}">>),
     value |-> Obj(<<[k |-> Text(<<"t">>),
                     v |-> Obj(<<[k |-> Text(<<"n">>), v |-> Num(0, 0)]>>)]>>)] }

\* The text of a pair: the segments joined by dots, " = ", the value.
PairText(path, value) ==
  JoinTexts([i \in 1..Len(path) |-> path[i].text], <<DOT>>)
    \o Text(<<" ", "=", " ">>) \o value.text

\* The mapping {k0: {k1: ... {kn: v}}} of a key path and a value.
RECURSIVE Nested(_, _)
Nested(path, value) ==
  IF path = <<>> THEN value
  ELSE Obj(<<[k |-> path[1].key, v |-> Nested(Tail(path), value)]>>)

\* The texts of one pair, each with the mapping its key path stands for.
OnePair ==
  { [text |-> PairText(path, value), nested |-> Nested(path, value.value)] :
      path \in KeyPaths, value \in PairValues }

\* The texts of two pairs, of the values 1 and 2, on two lines, each with
\* the two key paths.
TwoPairs ==
  { [text |-> PairText(first, [text |-> Text(<<"1">>)]) \o <<LF>>
                \o PairText(second, [text |-> Text(<<"2">>)]),
     first |-> [i \in 1..Len(first) |-> first[i].key],
     second |-> [i \in 1..Len(second) |-> second[i].key]] :
      first \in PathsUpTo(Segments \ {Segment(Text(<<"c", "1">>), Text(<<"c", "1">>)),
                                       Segment(Text(<<"'", "d", ".", "e", "'">>),
                                               Text(<<"d", ".", "e">>))},
                          MaxSegments),
      second \in PathsUpTo(Segments \ {Segment(Text(<<"c", "1">>), Text(<<"c", "1">>)),
                                        Segment(Text(<<"'", "d", ".", "e", "'">>),
                                                Text(<<"d", ".", "e">>))},
                           MaxSegments) }

InitPair ==
  /\ InitWith({one.text : one \in OnePair} \cup {two.text : two \in TwoPairs})
  /\ timezone = 0
SpecPair == InitPair /\ [][NextPair]_vars

\* C6: a pair with the key segments k0 ... kn and the value v parses to the
\* mapping {k0: {k1: ... {kn: v}}}, whatever the value, a falsy one
\* included; a dot inside a quoted segment does not split the segment.
DottedKeyNests ==
  \A one \in OnePair :
    source = one.text =>
      /\ pc = "Pair" => parsed = success(one.nested, Len(source))
      /\ pc = "Block" =>
           parsed = success([type |-> "Block", value |-> one.nested],
                            Len(source))

\* Pair has parsed a pair of three segments, one of them quoted with a dot
\* inside, and a falsy value.
QuotedDotFalsy ==
  /\ pc = "Pair"
  /\ source = Text(<<"a", ".", "\"", "t", ".", "a", "\"", ".", "b", " ", "=",
                     " ", "0">>)
  /\ parsed.st = "ok"

\* The value at the end of a key path in a mapping, Undefined when the path
\* leaves the mapping.
RECURSIVE Leaf(_, _)
Leaf(value, path) ==
  IF path = <<>> THEN value
  ELSE IF value.t # "object" THEN Undefined
  ELSE Leaf(Get(value, path[1]), Tail(path))

\* Neither path is the beginning of the other.
Diverge(first, second) ==
  \E i \in 1..Len(first) : i <= Len(second) /\ first[i] # second[i]

\* C7: the pairs of a block are merged: of two pairs whose key paths differ
\* in a segment, after a common beginning or from the start, the mapping of
\* the block has both leaves.
PairsAreMerged ==
  pc = "Block" =>
    \A two \in TwoPairs :
      (source = two.text /\ Diverge(two.first, two.second)) =>
        /\ parsed.st = "ok"
        /\ Leaf(parsed.body.value, two.first) = Num(1, 0)
        /\ Leaf(parsed.body.value, two.second) = Num(2, 0)

\* Block has parsed a.b = 1 and a."t.a" = 2.
SiblingsUnderA ==
  /\ pc = "Block"
  /\ source = Text(<<"a", ".", "b", " ", "=", " ", "1">>) \o <<LF>>
               \o Text(<<"a", ".", "\"", "t", ".", "a", "\"", " ", "=", " ",
                         "2">>)
  /\ parsed.st = "ok"
  /\ Len(parsed.body.value.v) = 1

(***************************************************************************)
(* Inline arrays: parse, stringify and parse again on the texts a = [...]  *)
(***************************************************************************)

\* The items of the arrays: the text of the value and the value.
ArrayItems ==
  { [text |-> Text(<<"1">>), value |-> Num(1, 0)],
    [text |-> Text(<<"2">>), value |-> Num(2, 0)],
    [text |-> Text(<<"\"", "x", "\"">>), value |-> Str(Text(<<"x">>))] }

\* The lists of up to MaxItems items.
MaxItems == 3
RECURSIVE ItemsUpTo(_)
ItemsUpTo(n) ==
  IF n = 0 THEN {<<>>}
  ELSE ItemsUpTo(n - 1)
         \cup {Append(items, item) : items \in ItemsUpTo(n - 1),
                                     item \in ArrayItems}

\* The text a = [ items, with the item at index doubled followed by two
\* commas (none when doubled is 0), then end.
ArrayText(items, doubled, end) ==
  Text(<<"a", " ", "=", " ", "[">>)
    \o JoinTexts([i \in 1..Len(items) |->
                    items[i].text \o (IF i = doubled THEN <<COMMA>> ELSE <<>>)],
                 <<COMMA>>)
    \o end

\* The accepted texts: the items separated by commas, with or without one
\* trailing comma after the last item, and the closing bracket.
AcceptedArrays ==
  { [text |-> ArrayText(items, 0, <<RBRACKET>>),
     values |-> [i \in 1..Len(items) |-> items[i].value]] :
      items \in ItemsUpTo(MaxItems) }
  \cup
  { [text |-> ArrayText(items, 0, <<COMMA, RBRACKET>>),
     values |-> [i \in 1..Len(items) |-> items[i].value]] :
      items \in ItemsUpTo(MaxItems) \ {<<>>} }

\* The rejected texts: a comma without a value before it (at the start,
\* after another comma in the list, after the trailing comma), and no
\* closing bracket.
RejectedArrays ==
  ( { ArrayText(items, doubled, <<RBRACKET>>) :
        items \in ItemsUpTo(MaxItems), doubled \in 1..MaxItems }
      \ {accepted.text : accepted \in AcceptedArrays} )
  \cup
  { Text(<<"a", " ", "=", " ", "[", ",">>) \o Tail(Tail(Tail(Tail(Tail(
      ArrayText(items, 0, <<RBRACKET>>)))))) : items \in ItemsUpTo(MaxItems) }
  \cup
  { ArrayText(items, 0, end) :
      items \in ItemsUpTo(MaxItems), end \in {<<>>, <<COMMA>>} }

InitArray ==
  InitWith({accepted.text : accepted \in AcceptedArrays} \cup RejectedArrays)
SpecArray == InitArray /\ [][Next]_vars

\* C8: the values separated by commas, with at most one trailing comma
\* before the closing bracket, are accepted and give the listed values in
\* order; a comma with no value before it, and a missing closing bracket,
\* raise the error "Array is not closed".
InlineArrays ==
  pc = "parse" =>
    /\ \A accepted \in AcceptedArrays :
         source = accepted.text =>
           /\ outcome.kind = "value"
           /\ outcome.value =
                Obj(<<[k |-> Text(<<"a">>), v |-> Arr(accepted.values)]>>)
    /\ source \in RejectedArrays =>
         /\ outcome.kind = "TOMLParseError"
         /\ outcome.detail.msg = "Array is not closed"

\* parse has returned {a: [1, 2]} for a = [1,2,].
TrailingComma ==
  /\ pc = "parse"
  /\ source = Text(<<"a", " ", "=", " ", "[", "1", ",", "2", ",", "]">>)
  /\ outcome.kind = "value"
  /\ Len(Get(outcome.value, Text(<<"a">>)).v) = 2

(***************************************************************************)
(* Strings and headers: parse, stringify and parse again on texts with     *)
(* and without the closing quote or bracket.                               *)
(***************************************************************************)

\* The pieces of the bodies of the strings.
StringChunks ==
  { Text(<<"x">>),
    Text(<<" ">>),
    Text(<<"#">>),
    <<BACKSLASH, QUOTE>>,
    <<BACKSLASH, BACKSLASH>>,
    <<BACKSLASH>> \o Text(<<"u", "4">>),
    <<BACKSLASH>> \o Text(<<"u", "0", "0", "4", "1">>) }

\* The bodies of up to MaxChunks pieces.
MaxChunks == 2
RECURSIVE BodiesUpTo(_)
BodiesUpTo(n) ==
  IF n = 0 THEN {<<>>}
  ELSE BodiesUpTo(n - 1)
         \cup {body \o chunk : body \in BodiesUpTo(n - 1),
                               chunk \in StringChunks}

SingleQuotes == {<<QUOTE>>, <<APOSTROPHE>>}
TripleQuotes == {<<QUOTE, QUOTE, QUOTE>>, <<APOSTROPHE, APOSTROPHE, APOSTROPHE>>}

\* s = and a string with its closing quote.
TerminatedStrings ==
  { Text(<<"s", " ", "=", " ">>) \o quote \o body \o quote :
      quote \in SingleQuotes \cup TripleQuotes, body \in BodiesUpTo(MaxChunks) }

\* s = and a single-line string with no closing quote before the end of
\* the text or before the newline that follows its body; a multi-line
\* string with no closing quotes at all.
UnterminatedStrings ==
  { Text(<<"s", " ", "=", " ">>) \o quote \o body :
      quote \in SingleQuotes \cup TripleQuotes, body \in BodiesUpTo(MaxChunks) }
  \cup
  { Text(<<"s", " ", "=", " ">>) \o quote \o body \o <<LF>> :
      quote \in SingleQuotes \cup TripleQuotes, body \in BodiesUpTo(MaxChunks) }
  \cup
  { Text(<<"s", " ", "=", " ">>) \o quote \o body \o <<LF>>
      \o Text(<<"1", "2">>) \o quote :
      quote \in SingleQuotes, body \in BodiesUpTo(MaxChunks) }

\* Headers without their closing bracket or brackets.
UnterminatedHeaders ==
  { Text(<<"[", "a">>),
    Text(<<"[", "a", ".", "b">>),
    Text(<<"[", "a">>) \o <<LF>> \o Text(<<"x", " ", "=", " ", "1">>),
    Text(<<"[", "a">>) \o <<LF>> \o Text(<<"]">>),
    Text(<<"[", "\"", "a", "\"">>),
    Text(<<"[", "[", "a">>),
    Text(<<"[", "[", "a", "]">>),
    Text(<<"[", "[", "a", "]">>) \o <<LF>> \o Text(<<"]">>),
    Text(<<"[", "[", "a", ".", "b", "]">>)
      \o <<LF>> \o Text(<<"x", " ", "=", " ", "1">>) }

InitString ==
  InitWith(TerminatedStrings \cup UnterminatedStrings \cup UnterminatedHeaders)
SpecString == InitString /\ [][Next]_vars

\* C9: a string without its closing quote before the end of the text or
\* before a raw newline, a multi-line string without its closing quotes and
\* a header without its closing bracket or brackets make parse raise an
\* error: no value is returned for them.
UnterminatedFails ==
  (pc = "parse" /\ source \in UnterminatedStrings \cup UnterminatedHeaders) =>
    outcome.kind = "TOMLParseError"

(***************************************************************************)
(* Whitespace: parse, stringify and parse again on texts without strings,  *)
(* as they are and with one more whitespace character somewhere.           *)
(***************************************************************************)

\* The whitespace of /\s/ that is no space, tab or line end, which the
\* texts get: vertical tab, form feed, non-breaking space.
InvalidWhitespace == {VT, FF, NBSP}

\* Texts without strings.
PlainTexts ==
  { Text(<<"a", " ", "=", " ", "1">>),
    Text(<<"a", "=", "1", "#", "c">>),
    Text(<<"[", "t", "]">>) \o <<LF>> \o Text(<<"b", "=", "t", "r", "u", "e">>),
    Text(<<"l", "=", "[", "1", ",", "2", "]">>),
    Text(<<"#", "c">>) \o <<CR, LF>> \o Text(<<"a", "=", "{", "x", "=", "1", "}">>) }

\* The places of a text where a character is put: after its first 0, 1, ...
\* characters.
MaxTextLen == 14

\* text with the character c after its first at characters, at the end when
\* the text is shorter.

WithCharAt(text, at, c) ==
  IF at >= Len(text) THEN Append(text, c)
  ELSE SubSeq(text, 1, at) \o <<c>> \o SubSeq(text, at + 1, Len(text))

WhitespaceTexts ==
  PlainTexts
    \cup { WithCharAt(text, at, c) :
             text \in PlainTexts, at \in 0..MaxTextLen, c \in InvalidWhitespace }

InitSpace == InitWith(WhitespaceTexts)
SpecSpace == InitSpace /\ [][Next]_vars

\* C10: a vertical tab, a form feed or a non-breaking space outside a
\* string is never skipped or accepted: parse raises an error for every
\* text that has one.
InvalidWhitespaceRejected ==
  (pc = "parse" /\ \E i \in 1..Len(source) : source[i] \in InvalidWhitespace) =>
    outcome.kind = "TOMLParseError"


(***************************************************************************)
(* The symbols inf and nan: parse, stringify and parse again on the texts  *)
(* key = symbol, at the top level and under a header.                      *)
(***************************************************************************)

\* The texts of the infinite and not-a-number symbols, with the numbers
\* they stand for.
SymbolTexts ==
  { [text |-> Text(<<"i", "n", "f">>), value |-> Infinity],
    [text |-> Text(<<"+", "i", "n", "f">>), value |-> Infinity],
    [text |-> Text(<<"-", "i", "n", "f">>), value |-> NegInfinity],
    [text |-> Text(<<"n", "a", "n">>), value |-> NaN],
    [text |-> Text(<<"+", "n", "a", "n">>), value |-> NaN],
    [text |-> Text(<<"-", "n", "a", "n">>), value |-> NaN] }

SymbolKeys == {Text(<<"k">>), Text(<<"a", "-", "b">>), Text(<<"x", "_", "1">>)}

\* Nothing, a table header or an array-of-tables header before the pair.
SymbolHeaders == {<<>>, Text(<<"[", "t", "]">>) \o <<LF>>, Text(<<"[", "[", "g", "]", "]">>) \o <<LF>>}

SymbolSpaces == {<<>>, <<SPACE>>, <<TAB>>}

SymbolDocuments ==
  { head \o key \o Text(<<" ", "=", " ">>) \o symbol.text \o space :
      head \in SymbolHeaders, key \in SymbolKeys, symbol \in SymbolTexts,
      space \in SymbolSpaces }

InitSymbol == InitWith(SymbolDocuments)
SpecSymbol == InitSymbol /\ [][Next]_vars

\* The mapping that holds the pair of a document: the value parse returned,
\* the table t of it, or the last element of the array of tables g of it.
SymbolTable(value) ==
  IF HasOwn(value, Text(<<"t">>)) THEN Get(value, Text(<<"t">>))
  ELSE IF HasOwn(value, Text(<<"g">>))
  THEN Get(value, Text(<<"g">>)).v[Len(Get(value, Text(<<"g">>)).v)]
  ELSE value

\* The lines of a text.
LinesOf(text) ==
  With(TextLines(text), LAMBDA lines : {lines[i] : i \in 1..Len(lines)})

\* C11: parse maps inf and +inf to positive infinity, -inf to negative
\* infinity and nan, +nan and -nan to not-a-number; stringify prints a
\* property that is positive infinity as key = inf and one that is negative
\* infinity as key = -inf, and parse of that text returns the same value.
InfinitySymbols ==
  /\ pc = "parse" =>
       \A head \in SymbolHeaders, key \in SymbolKeys, symbol \in SymbolTexts,
          space \in SymbolSpaces :
         source = head \o key \o Text(<<" ", "=", " ">>) \o symbol.text \o space =>
           /\ outcome.kind = "value"
           /\ SymbolTable(outcome.value) =
                Obj(<<[k |-> key, v |-> symbol.value]>>)
  /\ (pc \in {"stringify", "reparse"}
        /\ SymbolTable(srcObject).v[1].v \in {Infinity, NegInfinity}) =>
       /\ SymbolTable(srcObject).v[1].k
            \o (IF SymbolTable(srcObject).v[1].v = Infinity
                THEN Text(<<" ", "=", " ", "i", "n", "f">>) ELSE Text(<<" ", "=", " ", "-", "i", "n", "f">>))
            \in LinesOf(output)
       /\ pc = "reparse" =>
            /\ outcome.kind = "value"
            /\ outcome.value = srcObject

\* parse has returned negative infinity again for the text stringify made
\* of {k: -Infinity}.
NegativeInfinityAgain ==
  /\ pc = "reparse"
  /\ srcObject = Obj(<<[k |-> Text(<<"k">>), v |-> NegInfinity]>>)
  /\ output = Text(<<"k", " ", "=", " ", "-", "i", "n", "f">>) \o <<LF>>
  /\ outcome.kind = "value"
  /\ Get(outcome.value, Text(<<"k">>)) = NegInfinity


(***************************************************************************)
(* joinKeys and DottedKey: joinKeys(keys), then DottedKey on a scanner of  *)
(* the text it returned.                                                   *)
(***************************************************************************)

\* joinKeys(keys), for the array of strings in srcObject.
CallJoinKeys ==
  /\ pc = "start"
  /\ output' = joinKeys([i \in 1..Len(srcObject.v) |-> srcObject.v[i].v])
  /\ pc' = "joinKeys"
  /\ UNCHANGED <<timezone, source, position, parsed, outcome, srcObject,
                 fmtOptions, tomlBlocks, tomlIndex, tomlBody>>

\* DottedKey(new Scanner(output)).
CallDottedKey ==
  /\ pc = "joinKeys"
  /\ source' = output
  /\ \E result \in {Run(DottedKey, output, 0)} :
       /\ parsed' = result
       /\ position' = result.pos
  /\ pc' = "DottedKey"
  /\ UNCHANGED <<timezone, outcome, srcObject, fmtOptions, output, tomlBlocks,
                 tomlIndex, tomlBody>>

NextKeys == CallJoinKeys \/ CallDottedKey

\* The characters of the keys: a letter, the hyphen, and characters that
\* are not of a bare key.
KeyChars == {97, MINUS, DOT, QUOTE, BACKSLASH, SPACE, VT}

\* The keys of up to MaxKeyLen characters.
MaxKeyLen == 2
RECURSIVE KeysUpTo(_)
KeysUpTo(n) ==
  IF n = 0 THEN {<<>>}
  ELSE KeysUpTo(n - 1) \cup {Append(key, c) : key \in KeysUpTo(n - 1), c \in KeyChars}

\* Keys to go with them in a path.
OtherKeys == {Text(<<"A", "_", "1">>), <<>>, <<233>>}

\* The key paths: one key, or one key before or after another one.
KeyLists ==
  {<<key>> : key \in KeysUpTo(MaxKeyLen)}
    \cup {<<key, other>> : key \in KeysUpTo(MaxKeyLen), other \in OtherKeys}
    \cup {<<other, key>> : key \in KeysUpTo(MaxKeyLen), other \in OtherKeys}

InitKeys ==
  /\ timezone = 0
  /\ source = <<>>
  /\ position = 0
  /\ pc = "start"
  /\ parsed = NoResult
  /\ outcome = NoOutcome
  /\ srcObject \in {Arr([i \in 1..Len(keys) |-> Str(keys[i])]) : keys \in KeyLists}
  /\ fmtOptions = FALSE
  /\ output = <<>>
  /\ tomlBlocks = <<>>
  /\ tomlIndex = 0
  /\ tomlBody = EmptyObj
SpecKeys == InitKeys /\ [][NextKeys]_vars

\* The characters of a bare key, written out.
BareKeyChars == Digits \cup UpperCase \cup LowerCase \cup {UNDERSCORE, MINUS}

\* The text joinKeys is to give for one key.
EmittedKey(key) ==
  IF key # <<>> /\ \A i \in 1..Len(key) : key[i] \in BareKeyChars
  THEN key
  ELSE JSONString(key)

\* C12: joinKeys writes a key that is not empty and holds only A-Za-z0-9_-
\* as it is and any other key as its JSON string literal, and joins the keys
\* with "."; DottedKey on the text gives the keys back.
KeyEscaping ==
  pc \in {"joinKeys", "DottedKey"} =>
    /\ output = JoinTexts([i \in 1..Len(srcObject.v) |->
                             EmittedKey(srcObject.v[i].v)], <<DOT>>)
    /\ pc = "DottedKey" =>
         /\ parsed.st = "ok"
         /\ parsed.body = srcObject
         /\ position = Len(output)

\* DottedKey has given back a key with a dot and an empty key.
QuotedKeysBack ==
  /\ pc = "DottedKey"
  /\ srcObject = Arr(<<Str(Text(<<"a", ".">>)), Str(<<>>)>>)
  /\ output = Text(<<"\"", "a", ".", "\"", ".", "\"", "\"">>)
  /\ parsed.st = "ok"
  /\ parsed.body = srcObject


(***************************************************************************)
(* stringify called on an object, then parse of the text it returned.      *)
(***************************************************************************)

\* stringify(srcObject, {keyAlignment}), for an object of the caller.
Dump ==
  /\ pc = "object"
  /\ \E keyAlignment \in BOOLEAN :
       /\ fmtOptions' = keyAlignment
       /\ output' = stringify(srcObject, keyAlignment)
  /\ pc' = "stringify"
  /\ UNCHANGED <<timezone, source, position, parsed, outcome, srcObject,
                 tomlBlocks, tomlIndex, tomlBody>>

NextDump == Dump \/ ParseAgain

\* The state before stringify, for the objects of a set.
InitDump(objects) ==
  /\ timezone = 0
  /\ source = <<>>
  /\ position = 0
  /\ pc = "object"
  /\ parsed = NoResult
  /\ outcome = NoOutcome
  /\ srcObject \in objects
  /\ fmtOptions = FALSE
  /\ output = <<>>
  /\ tomlBlocks = <<>>
  /\ tomlIndex = 0
  /\ tomlBody = EmptyObj

(***************************************************************************)
(* The order of the lines: stringify on mappings whose properties are in   *)
(* any order.                                                              *)
(***************************************************************************)

\* Properties of every kind, each with keys of its own: values written in
\* one line, and tables and arrays of tables with properties of both kinds
\* inside, the tables first.
OrderProps ==
  { [k |-> Text(<<"n">>), v |-> Num(1, 0)],
    [k |-> Text(<<"s">>), v |-> Str(Text(<<"x">>))],
    [k |-> Text(<<"b">>), v |-> Bool(TRUE)],
    [k |-> Text(<<"d">>), v |-> DateOf(<<1979, 5, 27, 0>>)],
    [k |-> Text(<<"l">>), v |-> Arr(<<Num(1, 0), Num(2, 0)>>)],
    [k |-> Text(<<"m">>), v |-> Arr(<<Num(1, 0), Obj(<<[k |-> Text(<<"z">>), v |-> Num(1, 0)]>>)>>)],
    [k |-> Text(<<"t">>), v |-> EmptyObj],
    [k |-> Text(<<"u">>), v |-> Obj(<<[k |-> Text(<<"v">>), v |-> Obj(<<[k |-> Text(<<"u", "a">>), v |-> Num(1, 0)]>>)], [k |-> Text(<<"u", "b">>), v |-> Num(2, 0)]>>)],
    [k |-> Text(<<"g">>), v |-> Arr(<<Obj(<<[k |-> Text(<<"g", "a">>), v |-> Num(1, 0)]>>), Obj(<<[k |-> Text(<<"g", "t">>), v |-> Obj(<<[k |-> Text(<<"g", "b">>), v |-> Num(1, 0)]>>)], [k |-> Text(<<"g", "c">>), v |-> Num(2, 0)]>>)>>)] }

\* The lists of up to MaxProps distinct properties.
MaxProps == 3
RECURSIVE PropsUpTo(_)
PropsUpTo(n) ==
  IF n = 0 THEN {<<>>}
  ELSE PropsUpTo(n - 1)
         \cup {Append(more[1], more[2]) :
                 more \in {pair \in PropsUpTo(n - 1) \X OrderProps :
                             \A i \in 1..Len(pair[1]) : pair[1][i] # pair[2]}}

OrderObjects == {Obj(props) : props \in PropsUpTo(MaxProps)}

InitOrder == InitDump(OrderObjects)
SpecOrder == InitOrder /\ [][NextDump]_vars

\* Whether a value is written in one line: a string, a number, a boolean, a
\* date, or an array that is not an array of mappings only.
IsInline(value) ==
  \/ value.t \in {"string", "number", "boolean", "date"}
  \/ /\ value.t = "array"
     /\ \/ value.v = <<>>
        \/ \E i \in 1..Len(value.v) : value.v[i].t # "object"

\* The text of a key path in a header: the keys as joinKeys is to give
\* them, with dots between.
EmittedPath(keys) ==
  JoinTexts([i \in 1..Len(keys) |-> EmittedKey(keys[i])], <<DOT>>)

\* The mappings of an object that stringify writes as tables, each with its
\* header line (none for the object itself): the object, its tables and the
\* elements of its arrays of tables, at any depth.
RECURSIVE MappingsOf(_, _, _)
RECURSIVE ChildMappings(_, _)
MappingsOf(obj, keys, title) ==
  {[title |-> title, map |-> obj]}
    \cup UNION {ChildMappings(obj.v[i].v, Append(keys, obj.v[i].k)) :
                  i \in 1..Len(obj.v)}
ChildMappings(value, keys) ==
  IF value.t = "object"
  THEN MappingsOf(value, keys, <<LBRACKET>> \o EmittedPath(keys) \o <<RBRACKET>>)
  ELSE IF value.t = "array" /\ ~IsInline(value)
  THEN UNION {MappingsOf(value.v[j], keys,
                         <<LBRACKET, LBRACKET>> \o EmittedPath(keys)
                           \o <<RBRACKET, RBRACKET>>) :
                j \in 1..Len(value.v)}
  ELSE {}

IsHeaderLine(line) == line # <<>> /\ line[1] = LBRACKET

\* The key of a declaration line: the text before its first space.
KeyOfLine(line) ==
  With({i \in 1..Len(line) : line[i] = SPACE}, LAMBDA spaces :
    IF spaces = {} THEN line
    ELSE SubSeq(line, 1, (CHOOSE i \in spaces : \A j \in spaces : i <= j) - 1))

\* The last header line above line n, the empty text when there is none.
HeaderAbove(lines, n) ==
  With({i \in 1..(n - 1) : IsHeaderLine(lines[i])}, LAMBDA headers :
    IF headers = {} THEN <<>>
    ELSE lines[CHOOSE i \in headers : \A j \in headers : j <= i])

\* C13: stringify writes the properties of a mapping that take one line
\* before its tables and arrays of tables, whatever the order of the
\* properties: the line of such a property stands under the header of its
\* own mapping (under no header for the object itself), never under the
\* header of a child.
InlineBeforeTables ==
  pc = "stringify" =>
    With(TextLines(output), LAMBDA lines :
      \A m \in MappingsOf(srcObject, <<>>, <<>>) :
        \A i \in 1..Len(m.map.v) :
          IsInline(m.map.v[i].v) =>
            \E n \in 1..Len(lines) :
              /\ ~IsHeaderLine(lines[n])
              /\ KeyOfLine(lines[n]) = m.map.v[i].k
              /\ HeaderAbove(lines, n) = m.title)

\* stringify has written n = 1 first for an object whose first property is
\* the table u and whose second is n.
TableGivenFirst ==
  /\ pc = "stringify"
  /\ Len(srcObject.v) = 2
  /\ srcObject.v[1].k = Text(<<"u">>)
  /\ srcObject.v[2].k = Text(<<"n">>)
  /\ StringSlice(output, 0, 6) = Text(<<"n", " ", "=", " ", "1">>) \o <<LF>>


(***************************************************************************)
(* Multi-line basic strings: parse, stringify and parse again on the texts *)
(* s = """...""" with line breaks and line-ending backslashes inside.      *)
(***************************************************************************)

\* The pieces of the strings: a letter, the comment sign, a space, a tab, a
\* line break (LF or CRLF), a backslash before a line break, and the escape
\* sequence of a line feed.  kind is "break" for a line break, "space" for
\* white space, "continue" for the line-ending backslash and "text" for what
\* stands for the text in it.
StringPiece(kind, raw, text) == [kind |-> kind, raw |-> raw, text |-> text]
StringPieces ==
  { StringPiece("text", <<97>>, <<97>>),
    StringPiece("text", <<HASH>>, <<HASH>>),
    StringPiece("text", <<BACKSLASH, 110>>, <<LF>>),
    StringPiece("space", <<SPACE>>, <<SPACE>>),
    StringPiece("space", <<TAB>>, <<TAB>>),
    StringPiece("break", <<LF>>, <<LF>>),
    StringPiece("break", <<CR, LF>>, <<CR, LF>>),
    StringPiece("continue", <<BACKSLASH, LF>>, <<>>),
    StringPiece("continue", <<BACKSLASH, CR, LF>>, <<>>) }

\* The lists of up to MaxPieces pieces.
MaxPieces == 3
RECURSIVE PiecesUpTo(_)
PiecesUpTo(n) ==
  IF n = 0 THEN {<<>>}
  ELSE PiecesUpTo(n - 1)
         \cup {Append(pieces, piece) : pieces \in PiecesUpTo(n - 1),
                                       piece \in StringPieces}

\* The text s = """pieces""".
MultilineText(pieces) ==
  Text(<<"s", " ", "=", " ", "\"", "\"", "\"">>)
    \o JoinTexts([i \in 1..Len(pieces) |-> pieces[i].raw], <<>>) \o Text(<<"\"", "\"", "\"">>)

\* The string the pieces from index i on stand for: gap is whether
\* only white space and line breaks have come since a line-ending backslash.
RECURSIVE ContentFrom(_, _, _)
ContentFrom(pieces, i, gap) ==
  IF i > Len(pieces) THEN <<>>
  ELSE IF pieces[i].kind = "continue" THEN ContentFrom(pieces, i + 1, TRUE)
  ELSE IF gap /\ pieces[i].kind \in {"space", "break"}
  THEN ContentFrom(pieces, i + 1, TRUE)
  ELSE pieces[i].text \o ContentFrom(pieces, i + 1, FALSE)

\* The string of the pieces: a line break right after the opening quotes is
\* dropped.
Content(pieces) ==
  IF pieces # <<>> /\ pieces[1].kind = "break"
  THEN ContentFrom(pieces, 2, FALSE)
  ELSE ContentFrom(pieces, 1, FALSE)

MultilineStrings ==
  { [text |-> MultilineText(pieces), content |-> Content(pieces)] :
      pieces \in PiecesUpTo(MaxPieces) }

InitMultiline ==
  InitWith({string.text : string \in MultilineStrings}) /\ timezone = 0
SpecMultiline == InitMultiline /\ [][Next]_vars

\* C14: in a multi-line basic string a line break right after the opening
\* quotes is dropped, every other line break is kept, and a backslash right
\* before a line break removes itself, that line break and the white space
\* and line breaks after it up to the next other character.
MultilineContent ==
  pc = "parse" =>
    \A string \in MultilineStrings :
      source = string.text =>
        /\ outcome.kind = "value"
        /\ outcome.value = Obj(<<[k |-> Text(<<"s">>), v |-> Str(string.content)]>>)

\* parse has returned "a#" for the text with a after the opening quotes, a
\* line-ending backslash, and the comment sign on the next line.
ContinuedLine ==
  /\ pc = "parse"
  /\ source = Text(<<"s", " ", "=", " ", "\"", "\"", "\"", "a", "\\">>) \o <<LF>> \o Text(<<"#", "\"", "\"", "\"">>)
  /\ outcome.kind = "value"
  /\ Get(outcome.value, Text(<<"s">>)) = Str(Text(<<"a", "#">>))


(***************************************************************************)
(* Integers with a radix prefix: parse, stringify and parse again on the   *)
(* texts h = 0x..., h = 0o..., h = 0b...                                   *)
(***************************************************************************)

RadixPrefixes == {Text(<<"0", "x">>), Text(<<"0", "o">>), Text(<<"0", "b">>), Text(<<"0", "X">>), Text(<<"0", "O">>), Text(<<"0", "B">>)}

\* The characters after the prefix: digits, hex letters of both cases and
\* the underscore.
RadixChars == {ZERO, 57, 97, 70, UNDERSCORE}

\* The texts of 1 to MaxRadixLen of these characters.
MaxRadixLen == 2
RECURSIVE RadixDigitsUpTo(_)
RadixDigitsUpTo(n) ==
  IF n = 1 THEN {<<c>> : c \in RadixChars}
  ELSE RadixDigitsUpTo(n - 1)
         \cup {Append(digits, c) : digits \in RadixDigitsUpTo(n - 1),
                                   c \in RadixChars}

RadixLiterals ==
  {prefix \o digits : prefix \in RadixPrefixes,
                      digits \in RadixDigitsUpTo(MaxRadixLen)}

\* What may follow the value in its line.
RadixEnds == {<<>>, <<SPACE>>, Text(<<" ", "#", " ", "c">>), <<LF>>}

InitRadix ==
  InitWith({Text(<<"h", " ", "=", " ">>) \o literal \o end : literal \in RadixLiterals, end \in RadixEnds})
    /\ timezone = 0
SpecRadix == InitRadix /\ [][Next]_vars

\* C15: a value that starts with 0x, 0o or 0b, in either case, and goes on
\* with characters of 0-9, a-f, A-F and _ is parsed to the string of these
\* characters as they are written, not to a number; stringify writes it as a
\* quoted string, and parse of that text returns the same string.
RadixKeptAsText ==
  /\ pc = "parse" =>
       \A literal \in RadixLiterals, end \in RadixEnds :
         source = Text(<<"h", " ", "=", " ">>) \o literal \o end =>
           /\ outcome.kind = "value"
           /\ outcome.value = Obj(<<[k |-> Text(<<"h">>), v |-> Str(literal)]>>)
  /\ pc \in {"stringify", "reparse"} =>
       /\ srcObject.v[1].v.t = "string"
       /\ output = Text(<<"h", " ", "=", " ">>) \o <<QUOTE>> \o srcObject.v[1].v.v \o <<QUOTE, LF>>
       /\ pc = "reparse" =>
            /\ outcome.kind = "value"
            /\ outcome.value = srcObject

\* parse has returned the string "0XF_" a second time.
UpperCaseHexAgain ==
  /\ pc = "reparse"
  /\ srcObject = Obj(<<[k |-> Text(<<"h">>), v |-> Str(Text(<<"0", "X", "F", "_">>))]>>)
  /\ outcome.kind = "value"
  /\ outcome.value = srcObject


(***************************************************************************)
(* Inline tables: parse, stringify and parse again on the texts            *)
(* a = { pair, pair, ... }                                                 *)
(***************************************************************************)

\* The pairs of the tables: the text, the key path and the value.
TablePair(text, path, value) == [text |-> text, path |-> path, value |-> value]
TablePairs ==
  { TablePair(Text(<<"x", " ", "=", " ", "1">>), <<Text(<<"x">>)>>, Num(1, 0)),
    TablePair(Text(<<"x", " ", "=", " ", "2">>), <<Text(<<"x">>)>>, Num(2, 0)),
    TablePair(Text(<<"y", ".", "z", " ", "=", " ", "1">>), <<Text(<<"y">>), Text(<<"z">>)>>, Num(1, 0)),
    TablePair(Text(<<"y", ".", "z", " ", "=", " ", "3">>), <<Text(<<"y">>), Text(<<"z">>)>>, Num(3, 0)),
    TablePair(Text(<<"y", ".", "w", " ", "=", " ", "\"", "s", "\"">>), <<Text(<<"y">>), Text(<<"w">>)>>, Str(Text(<<"s">>))) }

\* The lists of up to MaxPairs pairs.
MaxPairs == 2
RECURSIVE PairsUpTo(_)
PairsUpTo(n) ==
  IF n = 0 THEN {<<>>}
  ELSE PairsUpTo(n - 1)
         \cup {Append(pairs, pair) : pairs \in PairsUpTo(n - 1),
                                     pair \in TablePairs}

\* The inline white space around the tokens.
TablePads == {<<>>, <<SPACE>>, <<TAB>>}

\* The text a = { pairs }, with pad after the opening brace, before and
\* after every comma, and before the closing brace.
InlineTableText(pairs, pad) ==
  Text(<<"a", " ", "=", " ", "{">>) \o pad
    \o JoinTexts([i \in 1..Len(pairs) |-> pairs[i].text],
                 pad \o <<COMMA>> \o pad)
    \o (IF pairs = <<>> THEN <<>> ELSE pad) \o <<RBRACE>>

InlineTables ==
  { [text |-> InlineTableText(pairs, pad), pairs |-> pairs] :
      pairs \in PairsUpTo(MaxPairs), pad \in TablePads }

InitTable == InitWith({table.text : table \in InlineTables})
SpecTable == InitTable /\ [][Next]_vars

\* C16: an opening brace, zero or more pairs separated by commas, and a
\* closing brace, with inline white space around the tokens, are accepted
\* and give the mapping in which every key path holds the value of the last
\* pair that names it; without pairs, the empty mapping.
InlineTableMerged ==
  pc = "parse" =>
    \A table \in InlineTables :
      source = table.text =>
        /\ outcome.kind = "value"
        /\ Get(outcome.value, Text(<<"a">>)).t = "object"
        /\ table.pairs = <<>> => Get(outcome.value, Text(<<"a">>)) = EmptyObj
        /\ \A i \in 1..Len(table.pairs) :
             (\A j \in (i + 1)..Len(table.pairs) :
                table.pairs[j].path # table.pairs[i].path) =>
               Leaf(Get(outcome.value, Text(<<"a">>)), table.pairs[i].path)
                 = table.pairs[i].value


(***************************************************************************)
(* Arrays of tables: stringify on mappings of arrays of flat mappings with *)
(* string values, then parse of the text.                                  *)
(***************************************************************************)

\* The flat mappings.
FlatMappings ==
  { Obj(<<[k |-> Text(<<"n", "a", "m", "e">>), v |-> Str(Text(<<"d", "e", "n", "o">>))]>>),
    Obj(<<[k |-> Text(<<"n", "a", "m", "e">>), v |-> Str(Text(<<"d", "e", "n", "o", "_", "c", "o", "r", "e">>))], [k |-> Text(<<"p", "a", "t", "h">>), v |-> Str(Text(<<"s", "r", "c", "/", "f", "o", "o", ".", "r", "s">>))]>>),
    Obj(<<[k |-> Text(<<"a", " ", "b">>), v |-> Str(Text(<<"x">>) \o <<LF>> \o Text(<<"y">>))], [k |-> Text(<<"q", "\"">>), v |-> Str(Text(<<"=", " ">>))]>>),
    EmptyObj }

\* The arrays of 1 to MaxElements flat mappings.
MaxElements == 2
RECURSIVE ElementsUpTo(_)
ElementsUpTo(n) ==
  IF n = 1 THEN {<<element>> : element \in FlatMappings}
  ELSE ElementsUpTo(n - 1)
         \cup {Append(elements, element) : elements \in ElementsUpTo(n - 1),
                                           element \in FlatMappings}

GroupKeys == {Text(<<"b", "i", "n">>), Text(<<"a", ".", "b">>), <<>>}

\* The array of the module's example that goes with them.
Nib == [k |-> Text(<<"n", "i", "b">>), v |-> Arr(<<Obj(<<[k |-> Text(<<"n", "a", "m", "e">>), v |-> Str(Text(<<"n", "o", "d", "e">>))], [k |-> Text(<<"p", "a", "t", "h">>), v |-> Str(Text(<<"n", "o", "t", "_", "f", "o", "u", "n", "d">>))]>>)>>)]

\* The mappings: one array, alone, before nib and after nib.
GroupObjects ==
  UNION { { Obj(<<[k |-> key, v |-> Arr(elements)]>>),
            Obj(<<[k |-> key, v |-> Arr(elements)], Nib>>),
            Obj(<<Nib, [k |-> key, v |-> Arr(elements)]>>) } :
          key \in GroupKeys, elements \in ElementsUpTo(MaxElements) }

InitGroups == InitDump(GroupObjects)
SpecGroups == InitGroups /\ [][NextDump]_vars

\* The lines of a flat mapping: key = "value".
FlatLines(element) ==
  [i \in 1..Len(element.v) |->
     EmittedKey(element.v[i].k) \o Text(<<" ", "=", " ">>) \o JSONString(element.v[i].v.v)]

\* The header and the lines of the elements of the arrays from the property
\* of index i on, from the element of index j on.
RECURSIVE GroupLines(_, _, _)
GroupLines(obj, i, j) ==
  IF i > Len(obj.v) THEN <<>>
  ELSE IF j > Len(obj.v[i].v.v) THEN GroupLines(obj, i + 1, 1)
  ELSE << <<LBRACKET, LBRACKET>> \o EmittedKey(obj.v[i].k)
            \o <<RBRACKET, RBRACKET>> >>
         \o FlatLines(obj.v[i].v.v[j]) \o GroupLines(obj, i, j + 1)

\* The lines of a text that are not empty.
NonEmpty(lines) == SelectSeq(lines, LAMBDA line : line # <<>>)

\* C17: for a mapping of non-empty arrays of flat mappings with string
\* values, stringify writes for every element, in order, one [[key]] header
\* and the lines key = "value" of the element, and parse of the text returns
\* a mapping deeply equal to the one given.
GroupsRoundTrip ==
  (pc \in {"stringify", "reparse"} /\ ~fmtOptions) =>
    /\ NonEmpty(TextLines(output)) = GroupLines(srcObject, 1, 1)
    /\ pc = "reparse" =>
         /\ outcome.kind = "value"
         /\ DeepEqual(outcome.value, srcObject)

\* parse has returned the mapping of the module's example again: two
\* elements under bin, one under nib.
ExampleAgain ==
  /\ pc = "reparse"
  /\ ~fmtOptions
  /\ Len(srcObject.v) = 2
  /\ srcObject.v[1].k = Text(<<"b", "i", "n">>)
  /\ Len(srcObject.v[1].v.v) = 2
  /\ srcObject.v[2] = Nib
  /\ outcome.kind = "value"
  /\ outcome.value = srcObject


(***************************************************************************)
(* The keyAlignment option: stringify, with and without it, on mappings    *)
(* with keys of several lengths, at the top and in tables.                 *)
(***************************************************************************)

AlignedProps ==
  { [k |-> Text(<<"a">>), v |-> Num(1, 0)],
    [k |-> Text(<<"a", "b", "c", "d", "e", "f">>), v |-> Str(Text(<<"x">>))],
    [k |-> Text(<<"k", " ", "l">>), v |-> Str(Text(<<"v">>))],
    [k |-> Text(<<"t">>), v |-> Obj(<<[k |-> Text(<<"b", "b">>), v |-> Num(1, 0)], [k |-> Text(<<"u">>), v |-> Obj(<<[k |-> Text(<<"a", "b", "c", "d", "e", "f", "g", "h", "i", "j">>), v |-> Str(Text(<<"y", "=", "z">>))]>>)]>>)],
    [k |-> Text(<<"g">>), v |-> Arr(<<Obj(<<[k |-> Text(<<"n", "a", "m", "e">>), v |-> Str(Text(<<"d", "e", "n", "o">>))]>>)>>)],
    [k |-> Text(<<"q", " ", "r">>), v |-> Str(Text(<<"a", "\"", " ", "=", "b">>))],
    [k |-> Text(<<"h", " ", "=">>), v |-> Arr(<<Obj(<<[k |-> Text(<<"n">>), v |-> Num(1, 0)]>>)>>)],
    [k |-> Text(<<"$", "&">>), v |-> Num(1, 0)] }

\* The mappings of up to MaxAligned of these properties, in any order.
MaxAligned == 3
RECURSIVE AlignedUpTo(_)
AlignedUpTo(n) ==
  IF n = 0 THEN {<<>>}
  ELSE AlignedUpTo(n - 1)
         \cup {Append(more[1], more[2]) :
                 more \in {pair \in AlignedUpTo(n - 1) \X AlignedProps :
                             \A i \in 1..Len(pair[1]) : pair[1][i] # pair[2]}}

InitAligned == InitDump({Obj(props) : props \in AlignedUpTo(MaxAligned)})
SpecAligned == InitAligned /\ [][NextDump]_vars

\* The properties of an object that take a declaration line, in the object
\* and in its tables at any depth.
Declarations(obj) ==
  UNION { {m.map.v[i] : i \in {j \in 1..Len(m.map.v) : IsInline(m.map.v[j].v)}} :
          m \in MappingsOf(obj, <<>>, <<>>) }

\* The length of the longest key of the declaration lines, as written.
Width(obj) ==
  IF Declarations(obj) = {} THEN 0
  ELSE CHOOSE w \in {Len(EmittedKey(d.k)) : d \in Declarations(obj)} :
         \A d \in Declarations(obj) : Len(EmittedKey(d.k)) <= w

\* A text with spaces after it up to a width.
Padded(text, width) ==
  text \o [i \in 1..(IF width > Len(text) THEN width - Len(text) ELSE 0) |-> SPACE]

\* The declaration lines with the keys padded to a width.
DeclarationLines(obj, width) ==
  { Padded(EmittedKey(d.k), width) \o Text(<<" ", "=", " ">>) \o JSONStringify(d.v) :
      d \in Declarations(obj) }

\* The header lines.
HeaderLines(obj) == {m.title : m \in MappingsOf(obj, <<>>, <<>>)}

\* C18: with keyAlignment every declaration line has its key padded with
\* spaces to the length of the longest key of a declaration line of the
\* whole text, so that every "=" of a declaration is in the same column;
\* without it no line is padded; header lines are never padded.
KeysAligned ==
  pc = "stringify" =>
    /\ DeclarationLines(srcObject, IF fmtOptions THEN Width(srcObject) ELSE 0)
         \subseteq LinesOf(output)
    /\ LinesOf(output)
         \subseteq (DeclarationLines(srcObject,
                                     IF fmtOptions THEN Width(srcObject) ELSE 0)
                      \cup HeaderLines(srcObject) \cup {<<>>})


(***************************************************************************)
(* One call of a parser function, or of the parser character(str)          *)
(* returns, on a fresh scanner.                                            *)
(***************************************************************************)

\* The parser functions of the grammar.
ParserFunctions ==
  { Fn("BareKey"), Fn("BasicString"), Fn("LiteralString"),
    Fn("MultilineBasicString"), Fn("MultilineLiteralString"), Fn("Symbols"),
    Fn("Integer"), Fn("Float"), Fn("DateTime"), Fn("LocalTime"),
    Fn("ArrayValue"), Fn("InlineTable"), Pair, Fn("Block"), Fn("Table"),
    Fn("TableArray") }

\* The literals the grammar matches with character(str).
Literals == {<<EQUALS>>, <<DOT>>, <<COMMA>>, <<LBRACKET>>, <<LBRACKET, LBRACKET>>}

\* parser(scanner), for a parser function of the grammar.
CallFunction ==
  /\ pc = "start"
  /\ \E parser \in ParserFunctions :
       /\ \E result \in {Run(parser, source, 0)} :
            /\ parsed' = result
            /\ position' = result.pos
       /\ pc' = parser.op
  /\ UNCHANGED <<timezone, source, outcome, srcObject, fmtOptions, output,
                 tomlBlocks, tomlIndex, tomlBody>>

\* character(str)(scanner).
CallCharacter ==
  /\ pc = "start"
  /\ \E str \in Literals :
       \E result \in {character(str, source, 0)} :
         /\ parsed' = result
         /\ position' = result.pos
  /\ pc' = "character"
  /\ UNCHANGED <<timezone, source, outcome, srcObject, fmtOptions, output,
                 tomlBlocks, tomlIndex, tomlBody>>

NextCall == CallFunction \/ CallCharacter

CallTexts ==
  { <<>>,
    Text(<<" ">>),
    Text(<<"x">>),
    Text(<<" ", "x">>),
    Text(<<"0", "x">>),
    Text(<<"0", "x", "g">>),
    Text(<<"+">>),
    Text(<<"1">>),
    Text(<<" ", "1">>),
    Text(<<"\"", "a", "\"">>),
    Text(<<"'", "a", "'">>),
    Text(<<"a", " ", "=", " ", "1">>),
    Text(<<" ", "a", " ", "=", " ", "1">>),
    Text(<<"[", "t", "]">>),
    Text(<<" ", "[", "t", "]">>),
    Text(<<"[", "[", "g", "]", "]">>),
    Text(<<"[", "1", "]">>),
    Text(<<"{", "}">>),
    Text(<<"{", " ", "}">>),
    Text(<<"t", "r", "u", "e">>),
    Text(<<"0", "7", ":", "3", "2", ":", "0", "0">>),
    Text(<<"1", "9", "7", "9", "-", "0", "5", "-", "2", "7">>),
    <<LF>> \o Text(<<"[", "t", "]">>),
    Text(<<"#", "c">>) \o <<LF>> \o Text(<<"x">>),
    Text(<<" ", "=">>),
    Text(<<"=">>),
    <<TAB>> \o Text(<<".">>) }

InitCall == InitWith(CallTexts) /\ timezone = 0
SpecCall == InitCall /\ [][NextCall]_vars

\* C19: a call of a parser function or of a literal matcher that returns a
\* failure leaves the scanner where it was, and a call that returns a
\* success has advanced it.
SoftFailureKeepsPosition ==
  pc # "start" =>
    /\ parsed.st = "fail" => position = 0
    /\ parsed.st = "ok" => position > 0


(***************************************************************************)
(* One call of or(parsers) on a fresh scanner, beside parse(source).       *)
(***************************************************************************)

\* The alternations of the grammar, and two of them in another order.
Alternations ==
  [ Key |-> DottedKey.parser,
    Value |-> Value,
    Blocks |-> TomlOr,
    Numbers |-> or(<<Fn("Integer"), Fn("Float")>>),
    Tables |-> or(<<Fn("Table"), Fn("TableArray"), Fn("Block")>>) ]

\* or(parsers)(scanner).
CallOr ==
  /\ pc = "start"
  /\ \E name \in DOMAIN Alternations :
       /\ \E result \in {Run(Alternations[name], source, 0)} :
            /\ parsed' = result
            /\ position' = result.pos
       /\ pc' = name
  /\ UNCHANGED <<timezone, source, outcome, srcObject, fmtOptions, output,
                 tomlBlocks, tomlIndex, tomlBody>>

NextOr == CallOr \/ Parse

OrTexts ==
  { Text(<<"a", " ", "=", " ", "1">>),
    Text(<<"a", " ", "=", " ", "1", ".", "5">>),
    Text(<<"a", " ", "=", " ", "[", "1">>),
    Text(<<"a", " ", "=", " ", "[", "1", "]">>),
    Text(<<"a", " ", "=", " ", "\"", "x">>),
    Text(<<"a", " ", "=", " ", "\"", "\"", "\"", "a">>),
    Text(<<"a", " ", "=", " ", "{", " ", "}">>),
    Text(<<"a", " ", "=", " ", "{", "}">>),
    Text(<<"a", " ", "=", " ", "'", "x", "'">>),
    Text(<<"a", " ", "=", " ", "t", "r", "u", "e">>),
    Text(<<"a", " ", "=", " ", "0", "x">>),
    Text(<<"a", " ", "=", " ", "\"", "\\", "q", "\"">>),
    Text(<<"a", " ", "=", " ", "1", "9", "7", "9", "-", "1", "3", "-", "4", "5">>),
    Text(<<"[", "t", "]">>),
    Text(<<"[", "[", "g", "]", "]">>),
    Text(<<"[", "t">>),
    Text(<<"[", "[", "g", "]">>),
    Text(<<"[", "[", "]", "]">>),
    Text(<<"\"", "k", "\"", " ", "=", " ", "1">>),
    Text(<<"'", "k", "'", " ", "=", " ", "1">>),
    Text(<<"\"", "k">>),
    Text(<<"a">>),
    Text(<<"a", " ", "=">>),
    Text(<<"=", " ", "1">>),
    Text(<<"1">>),
    Text(<<"1", ".", "5">>),
    Text(<<"[", "1">>),
    Text(<<"[", "1", "]">>),
    Text(<<"\"", "x", "\"">>),
    Text(<<"\"", "\"", "\"", "a">>),
    Text(<<"\"", "\"", "\"", "a", "\"", "\"", "\"">>),
    Text(<<"'", "x", "'">>),
    Text(<<"'", "'", "'", "a">>),
    Text(<<"t", "r", "u", "e">>),
    Text(<<"{", "}">>),
    Text(<<"{", " ", "}">>),
    Text(<<"1", "9", "7", "9", "-", "0", "5", "-", "2", "7">>),
    Text(<<"0", "7", ":", "3", "2", ":", "0", "0">>),
    Text(<<"0", "x">>),
    <<>>,
    Text(<<" ", "a", " ", "=", " ", "1">>),
    Text(<<"a", " ", "=", " ", "1">>) \o <<LF>> \o Text(<<"[", "t", "]">>) \o <<LF>> \o Text(<<"b", " ", "=", " ", "[">>) }

InitOr == InitWith(OrTexts) /\ timezone = 0
SpecOr == InitOr /\ [][NextOr]_vars

\* What the claim gives for or(parsers) called at pos: the parsers are
\* called in their order, each where the one before it left the scanner,
\* and the first that does not fail decides.
RECURSIVE ChoiceIs(_, _, _, _)
ChoiceIs(parsers, src, pos, result) ==
  IF parsers = <<>> THEN result.st = "fail"
  ELSE \E first \in {Run(parsers[1], src, pos)} :
         IF first.st = "fail"
         THEN ChoiceIs(Tail(parsers), src, first.pos, result)
         ELSE result = first

\* The driver reports the error that the first of the parsers that does not
\* fail at pos threw, if it threw one.
RECURSIVE ThrownIsReported(_, _, _)
ThrownIsReported(parsers, src, pos) ==
  parsers # <<>> =>
    \E first \in {Run(parsers[1], src, pos)} :
      CASE first.st = "fail" -> ThrownIsReported(Tail(parsers), src, first.pos)
        [] first.st = "throw" ->
             /\ outcome.kind = "TOMLParseError"
             /\ outcome.detail = first.err
        [] OTHER -> TRUE

KeyEquals == Text(<<"a", " ", "=", " ">>)

\* C20: or(parsers) returns what the first of its parsers that does not
\* fail returned, a success or a thrown error, and leaves the scanner where
\* that parser left it; it fails only if all of them fail.  An error thrown
\* by an alternative of the blocks of a document, or of the value of its
\* first pair, is the error that parse reports.
FirstChoiceOrError ==
  /\ pc \in DOMAIN Alternations =>
       /\ ChoiceIs(Alternations[pc].parsers, source, 0, parsed)
       /\ position = parsed.pos
  /\ pc = "parse" =>
       /\ ThrownIsReported(TomlOr.parsers, source, 0)
       /\ (Len(source) >= 4 /\ SubSeq(source, 1, 4) = KeyEquals)
            => ThrownIsReported(Value.parsers, source, 4)

\* The value starts a multi-line string that is never closed: the error is
\* reported, though the next alternative would match an empty string.
UnclosedStringReported ==
  /\ pc = "parse"
  /\ source = Text(<<"a", " ", "=", " ", "\"", "\"", "\"", "a">>)
  /\ outcome.kind = "TOMLParseError"
  /\ outcome.detail.name = "TOMLParseError"
  /\ BasicString(source, 4).st = "ok"


(***************************************************************************)
(* Basic strings that hold escape sequences, some cut short by the closing *)
(* quote or by the end of the text.                                        *)
(***************************************************************************)

EscapePieces ==
  { Text(<<"\\", "u", "4", "1">>),
    Text(<<"\\", "u", "0", "0", "4", "1">>),
    Text(<<"\\", "U", "0", "0", "0", "0", "4", "1">>),
    Text(<<"\\", "U", "4", "1">>),
    Text(<<"x">>),
    Text(<<"\\">>),
    Text(<<"\\", "n">>) }

MaxEscapes == 2

RECURSIVE EscapesUpTo(_)
EscapesUpTo(n) ==
  IF n = 0 THEN {<<>>}
  ELSE EscapesUpTo(n - 1)
         \cup {str \o piece : str \in EscapesUpTo(n - 1), piece \in EscapePieces}

EscapeTexts ==
  { Text(<<"a", " ", "=", " ", "\"">>) \o str \o end :
      str \in EscapesUpTo(MaxEscapes), end \in {<<>>, <<QUOTE>>} }

InitEscape == InitWith(EscapeTexts) /\ timezone = 0
SpecEscape == InitEscape /\ [][Next]_vars

\* C21: the position of the scanner is never negative and never beyond the
\* end of the source, also when parse ends with an error.
PositionWithinSource ==
  pc = "parse" => (0 <= position /\ position <= Len(source))


(***************************************************************************)
(* The loops of the parser, one iteration at a time.  While a loop runs,   *)
(* pc names it, parsed.st is "loop", parsed.body is the list the loop      *)
(* builds and position is where the scanner is at the top of the loop;     *)
(* when the function that holds the loop returns or throws, parsed is its  *)
(* result and pc is "return".  The calls an iteration makes are whole.     *)
(***************************************************************************)

LoopNames ==
  { "Repeat", "Join", "ArrayValue", "BasicString", "LiteralString",
    "MultilineBasicString", "MultilineLiteralString", "SkipInline",
    "SkipFull", "SkipComment" }

\* The code of the function before its loop, for a scanner at 0: Repeat of
\* Toml, Join of DottedKey, ArrayValue, the four strings, and the loops of
\* nextUntilChar.
LoopEntry(name, src) ==
  LET enter(body, pos) ==
        [st |-> "loop", body |-> body, pos |-> pos, err |-> NoError]
      open(a, str) ==
        CASE a.st = "throw" -> a
          [] a.st # "throw" /\ slice(src, a.pos, 0, Len(str)) # str ->
               failure(a.pos)
          [] OTHER -> enter(<<>>, a.pos + Len(str))
      trimmed(a) ==
        IF a.st = "loop" THEN enter(<<>>, TrimFirstNewline(src, a.pos)) ELSE a
      first(a) ==
        CASE a.st = "throw" -> a
          [] a.st = "fail" -> failure(a.pos)
          [] OTHER -> enter(<<a.body>>, a.pos)
  IN  CASE name = "Join" -> first(Run(DottedKey.parser, src, 0))
        [] name = "ArrayValue" ->
             open(nextUntilChar(src, 0, TRUE, FALSE), <<LBRACKET>>)
        [] name = "BasicString" ->
             open(nextUntilChar(src, 0, TRUE, FALSE), <<QUOTE>>)
        [] name = "LiteralString" ->
             open(nextUntilChar(src, 0, TRUE, FALSE), <<APOSTROPHE>>)
        [] name = "MultilineBasicString" ->
             trimmed(open(nextUntilChar(src, 0, TRUE, FALSE),
                          <<QUOTE, QUOTE, QUOTE>>))
        [] name = "MultilineLiteralString" ->
             trimmed(open(nextUntilChar(src, 0, TRUE, FALSE),
                          <<APOSTROPHE, APOSTROPHE, APOSTROPHE>>))
        [] OTHER -> enter(<<>>, 0)

\* The scanner and the result after a step that leaves result.
LoopGoesOn(name, result) ==
  /\ parsed' = result
  /\ position' = result.pos
  /\ pc' = IF result.st = "loop" THEN name ELSE "return"
  /\ UNCHANGED <<timezone, source, outcome, srcObject, fmtOptions, output,
                 tomlBlocks, tomlIndex, tomlBody>>

\* The call of a function that holds a loop, up to the top of the loop.
EnterLoop ==
  /\ pc = "start"
  /\ \E name \in LoopNames :
       \E step \in {LoopEntry(name, source)} : LoopGoesOn(name, step)

\* One iteration of the while loop of Repeat, for the blocks of Toml, or
\* the end of Repeat.
RepeatIteration ==
  IF eof(source, position) THEN RepeatEnd(parsed.body, position)
  ELSE With(Run(TomlOr, source, position), LAMBDA result :
         CASE result.st = "throw" -> result
           [] result.st = "fail" -> RepeatEnd(parsed.body, result.pos)
           [] OTHER ->
                With(nextUntilChar(source, result.pos, FALSE, TRUE),
                     LAMBDA skip :
                       IF skip.st = "throw" THEN skip
                       ELSE [parsed EXCEPT
                               !.body = Append(@, result.body),
                               !.pos = skip.pos]))

RepeatStep ==
  /\ pc = "Repeat"
  /\ \E step \in {RepeatIteration} : LoopGoesOn("Repeat", step)

\* One iteration of the while loop of Join, for the keys of DottedKey, or
\* the end of Join.
JoinIteration ==
  IF eof(source, position) THEN success(Arr(parsed.body), position)
  ELSE With(character(<<DOT>>, source, position), LAMBDA sep :
         CASE sep.st = "throw" -> sep
           [] sep.st = "fail" -> success(Arr(parsed.body), sep.pos)
           [] OTHER ->
                With(Run(DottedKey.parser, source, sep.pos),
                     LAMBDA result :
                       CASE result.st = "throw" -> result
                         [] result.st = "ok" ->
                              [parsed EXCEPT
                                 !.body = Append(@, result.body),
                                 !.pos = result.pos]
                         [] OTHER ->
                              TOMLParseError("Invalid token after",
                                             <<DOT>>, result.pos)))

JoinStep ==
  /\ pc = "Join"
  /\ \E step \in {JoinIteration} : LoopGoesOn("Join", step)

\* One iteration of the while loop of ArrayValue, or the end of ArrayValue.
ArrayValueIteration ==
  IF eof(source, position)
  THEN ArrayValueEnd(source, parsed.body, position)
  ELSE With(nextUntilChar(source, position, FALSE, TRUE), LAMBDA skip :
         IF skip.st = "throw" THEN skip
         ELSE With(Run(Value, source, skip.pos), LAMBDA result :
                CASE result.st = "throw" -> result
                  [] result.st = "fail" ->
                       ArrayValueEnd(source, parsed.body, result.pos)
                  [] OTHER ->
                       With(nextUntilChar(source, result.pos, TRUE, FALSE),
                            LAMBDA after :
                              CASE after.st = "throw" -> after
                                [] after.st # "throw"
                                   /\ char(source, after.pos, 0) = COMMA ->
                                     [parsed EXCEPT
                                        !.body = Append(@, result.body),
                                        !.pos = after.pos + 1]
                                [] OTHER ->
                                     ArrayValueEnd(source,
                                       Append(parsed.body, result.body),
                                       after.pos))))

ArrayValueStep ==
  /\ pc = "ArrayValue"
  /\ \E step \in {ArrayValueIteration} : LoopGoesOn("ArrayValue", step)

\* One iteration of the while loop of BasicString, or its end.
BasicStringIteration ==
  IF char(source, position, 0) # QUOTE /\ ~eof(source, position)
  THEN IF char(source, position, 0) = LF
       THEN TOMLParseError("Single-line string cannot contain EOL", <<>>,
                           position)
       ELSE With(EscapeSequence(source, position), LAMBDA escapedChar :
              CASE escapedChar.st = "throw" -> escapedChar
                [] escapedChar.st = "ok" ->
                     [parsed EXCEPT !.body = @ \o escapedChar.body.v,
                                    !.pos = escapedChar.pos]
                [] OTHER ->
                     [parsed EXCEPT
                        !.body = Append(@, char(source, position, 0)),
                        !.pos = position + 1])
  ELSE IF eof(source, position)
  THEN TOMLParseError("Single-line string is not closed", parsed.body,
                      position)
  ELSE success(Str(parsed.body), position + 1)

BasicStringStep ==
  /\ pc = "BasicString"
  /\ \E step \in {BasicStringIteration} : LoopGoesOn("BasicString", step)

\* One iteration of the while loop of LiteralString, or its end.
LiteralStringIteration ==
  IF char(source, position, 0) # APOSTROPHE /\ ~eof(source, position)
  THEN IF char(source, position, 0) = LF
       THEN TOMLParseError("Single-line string cannot contain EOL", <<>>,
                           position)
       ELSE [parsed EXCEPT !.body = Append(@, char(source, position, 0)),
                           !.pos = position + 1]
  ELSE IF eof(source, position)
  THEN TOMLParseError("Single-line string is not closed", parsed.body,
                      position)
  ELSE success(Str(parsed.body), position + 1)

LiteralStringStep ==
  /\ pc = "LiteralString"
  /\ \E step \in {LiteralStringIteration} : LoopGoesOn("LiteralString", step)

\* One iteration of the while loop of MultilineBasicString, or its end.
MultilineBasicStringIteration ==
  IF slice(source, position, 0, 3) # <<QUOTE, QUOTE, QUOTE>>
     /\ ~eof(source, position)
  THEN IF \/ slice(source, position, 0, 2) = <<BACKSLASH, LF>>
          \/ slice(source, position, 0, 3) = <<BACKSLASH, CR, LF>>
       THEN With(nextUntilChar(source, position + 1, FALSE, FALSE),
                 LAMBDA skip :
                   IF skip.st = "throw" THEN skip
                   ELSE [parsed EXCEPT !.pos = skip.pos])
       ELSE With(EscapeSequence(source, position), LAMBDA escapedChar :
              CASE escapedChar.st = "throw" -> escapedChar
                [] escapedChar.st = "ok" ->
                     [parsed EXCEPT !.body = @ \o escapedChar.body.v,
                                    !.pos = escapedChar.pos]
                [] OTHER ->
                     [parsed EXCEPT
                        !.body = Append(@, char(source, position, 0)),
                        !.pos = position + 1])
  ELSE IF eof(source, position)
  THEN TOMLParseError("Multi-line string is not closed", parsed.body,
                      position)
  ELSE IF char(source, position, 3) = QUOTE
  THEN success(Str(Append(parsed.body, QUOTE)), position + 4)
  ELSE success(Str(parsed.body), position + 3)

MultilineBasicStringStep ==
  /\ pc = "MultilineBasicString"
  /\ \E step \in {MultilineBasicStringIteration} : LoopGoesOn("MultilineBasicString", step)

\* One iteration of the while loop of MultilineLiteralString, or its end.
MultilineLiteralStringIteration ==
  IF slice(source, position, 0, 3) # <<APOSTROPHE, APOSTROPHE, APOSTROPHE>>
     /\ ~eof(source, position)
  THEN [parsed EXCEPT !.body = Append(@, char(source, position, 0)),
                      !.pos = position + 1]
  ELSE IF eof(source, position)
  THEN TOMLParseError("Multi-line string is not closed", parsed.body,
                      position)
  ELSE IF char(source, position, 3) = APOSTROPHE
  THEN success(Str(Append(parsed.body, APOSTROPHE)), position + 4)
  ELSE success(Str(parsed.body), position + 3)

MultilineLiteralStringStep ==
  /\ pc = "MultilineLiteralString"
  /\ \E step \in {MultilineLiteralStringIteration} : LoopGoesOn("MultilineLiteralString", step)

\* One iteration of the loop of nextUntilChar({inline: true}), or the test
\* after it: the loop of nextUntilChar does nothing more where it ended.
SkipInlineIteration ==
  IF char(source, position, 0) \in Whitespace /\ ~eof(source, position)
  THEN [parsed EXCEPT !.pos = position + 1]
  ELSE nextUntilChar(source, position, TRUE, FALSE)

SkipInlineStep ==
  /\ pc = "SkipInline"
  /\ \E step \in {SkipInlineIteration} : LoopGoesOn("SkipInline", step)

\* One iteration of the loop of nextUntilChar(), or the test after it.
SkipFullIteration ==
  IF eof(source, position)
  THEN nextUntilChar(source, position, FALSE, TRUE)
  ELSE IF \/ char(source, position, 0) \in Whitespace
          \/ isCurrentCharEOL(source, position)
  THEN [parsed EXCEPT !.pos = position + 1]
  ELSE IF char(source, position, 0) = HASH
  THEN [parsed EXCEPT !.pos = SkipComment(source, position)]
  ELSE nextUntilChar(source, position, FALSE, TRUE)

SkipFullStep ==
  /\ pc = "SkipFull"
  /\ \E step \in {SkipFullIteration} : LoopGoesOn("SkipFull", step)

\* The loop over a comment that stays where it is.
SkipCommentStay ==
  IF ~isCurrentCharEOL(source, position) /\ ~eof(source, position)
  THEN parsed
  ELSE success(<<>>, position)

\* One iteration of the loop of nextUntilChar over a comment, or its end.
SkipCommentIteration ==
  IF ~isCurrentCharEOL(source, position) /\ ~eof(source, position)
  THEN [parsed EXCEPT !.pos = position + 1]
  ELSE success(<<>>, position)

SkipCommentStep ==
  /\ pc = "SkipComment"
  /\ \E step \in {SkipCommentIteration} : LoopGoesOn("SkipComment", step)

NextLoop ==
  \/ EnterLoop
  \/ RepeatStep
  \/ JoinStep
  \/ ArrayValueStep
  \/ BasicStringStep
  \/ LiteralStringStep
  \/ MultilineBasicStringStep
  \/ MultilineLiteralStringStep
  \/ SkipInlineStep
  \/ SkipFullStep
  \/ SkipCommentStep

LoopTexts ==
  { Text(<<"a", " ", "=", " ", "1">>) \o <<LF>> \o Text(<<"b", " ", "=", " ", "2">>) \o <<LF>>,
    Text(<<"a", " ", "=", " ", "1", " ", "#", " ", "c">>) \o <<LF>> \o Text(<<"[", "t", "]">>) \o <<LF>> \o Text(<<"b", " ", "=", " ", "2">>),
    Text(<<"a", ".", "b", ".", "c">>),
    Text(<<"a", " ", ".", " ", "\"", "b", "\"", " ", ".", "c">>),
    Text(<<"a", ".">>),
    Text(<<"a", ".", ".", "b">>),
    Text(<<"[", "1", ",", " ", "2", "]">>),
    Text(<<"[", " ", "1", " ", ",">>) \o <<LF>> \o Text(<<" ", "2", " ", ",", " ", "]">>),
    Text(<<"[", "1", ",">>),
    Text(<<"[", "[", "1", "]", ",", " ", "[", "]", "]">>),
    Text(<<"[", "1", " ", "2", "]">>),
    Text(<<"\"", "a", "b", "\"">>),
    Text(<<"\"", "a", "\\", "n", "b", "\"">>),
    Text(<<"\"", "a">>),
    Text(<<"\"", "a">>) \o <<LF>> \o Text(<<"b", "\"">>),
    Text(<<"\"", "\\", "u", "0", "0", "4", "1", "\"">>),
    Text(<<"'", "a", "b", "'">>),
    Text(<<"'", "a">>),
    Text(<<"'", "a">>) \o <<LF>> \o Text(<<"b", "'">>),
    Text(<<"\"", "\"", "\"", "a", "\\">>) \o <<LF>> \o Text(<<" ", " ", "b", "\"", "\"", "\"">>),
    Text(<<"\"", "\"", "\"">>) \o <<LF>> \o Text(<<"a", "\"", "\"", "\"", "\"">>),
    Text(<<"\"", "\"", "\"", "a">>),
    Text(<<"\"", "\"", "\"", "a", "\\", "t", "b", "\"", "\"", "\"">>),
    Text(<<"'", "'", "'", "a", "b", "'", "'", "'">>),
    Text(<<"'", "'", "'">>) \o <<CR>> \o <<LF>> \o Text(<<"a", "'", "'", "'", "'">>),
    Text(<<"'", "'", "'", "a">>),
    Text(<<" ", " ", "x">>),
    Text(<<" ">>) \o <<TAB>>,
    <<TAB>> \o <<VT>> \o Text(<<"x">>),
    Text(<<" ">>) \o <<LF>> \o Text(<<"#", " ", "c">>) \o <<LF>> \o Text(<<" ", "x">>),
    Text(<<"#", " ", "c">>),
    Text(<<"#", "c">>) \o <<CR>> \o <<LF>> \o Text(<<"x">>),
    <<LF>> \o <<LF>>,
    Text(<<"x">>),
    <<>>,
    Text(<<"#">>) \o <<LF>> \o Text(<<"#">>) \o <<LF>>,
    <<CR>> \o <<LF>> \o Text(<<"x">>),
    <<CR>> \o Text(<<"x">>) }

InitLoop == InitWith(LoopTexts) /\ timezone = 0
SpecLoop == InitLoop /\ [][NextLoop]_vars

\* What the loop that runs returns from its next iteration.
Iteration ==
  CASE pc = "Repeat" -> RepeatIteration
    [] pc = "Join" -> JoinIteration
    [] pc = "ArrayValue" -> ArrayValueIteration
    [] pc = "BasicString" -> BasicStringIteration
    [] pc = "LiteralString" -> LiteralStringIteration
    [] pc = "MultilineBasicString" -> MultilineBasicStringIteration
    [] pc = "MultilineLiteralString" -> MultilineLiteralStringIteration
    [] pc = "SkipInline" -> SkipInlineIteration
    [] pc = "SkipFull" -> SkipFullIteration
    [] pc = "SkipComment" -> SkipCommentIteration

\* C22: the position of the scanner never decreases, an iteration that
\* stays in its loop has advanced it, and the next iteration of a loop
\* that runs either ends the loop or advances the position: with the
\* position bounded by the loop conditions, every call ends, by a return or
\* by an error.
LoopsAdvance ==
  /\ [][position' >= position]_vars
  /\ [][pc' = pc => position' > position]_vars
  /\ [](pc \in LoopNames /\ Iteration.st = "loop" => Iteration.pos > position)

\* The loop of ArrayValue is at its top for the third time: two iterations
\* have read the two elements of [ 1 ,<LF> 2 , ].
ArrayReadInSteps ==
  /\ pc = "ArrayValue"
  /\ source = Text(<<"[", " ", "1", " ", ",">>) \o <<LF>> \o Text(<<" ", "2", " ", ",", " ", "]">>)
  /\ Len(parsed.body) = 2
  /\ position = 10


(***************************************************************************)
(* One call of join(parser, separator) on a fresh scanner, beside          *)
(* parse(source): the keys of DottedKey and the pairs of InlineTable.      *)
(***************************************************************************)

Joins == [DottedKey |-> DottedKey, Pairs |-> join(Pair, <<COMMA>>)]

\* join(parser, separator)(scanner).
CallJoin ==
  /\ pc = "start"
  /\ \E name \in DOMAIN Joins :
       /\ \E result \in {Run(Joins[name], source, 0)} :
            /\ parsed' = result
            /\ position' = result.pos
       /\ pc' = name
  /\ UNCHANGED <<timezone, source, outcome, srcObject, fmtOptions, output,
                 tomlBlocks, tomlIndex, tomlBody>>

NextJoin == CallJoin \/ Parse

\* Key paths of up to MaxParts parts, a part being a bare key, a quoted
\* key, an empty quoted key or nothing at all.
KeyParts ==
  { Text(<<"a">>),
    Text(<<"\"", "b", "\"">>),
    Text(<<"'", "c", "'">>),
    Text(<<"\"", "\"">>),
    <<>> }
KeyDots == { Text(<<".">>), Text(<<" ", ".", " ">>) }

MaxParts == 3

RECURSIVE KeyPathsUpTo(_)
KeyPathsUpTo(n) ==
  IF n = 1 THEN KeyParts
  ELSE KeyPathsUpTo(n - 1)
         \cup {path \o dot \o part :
                 path \in KeyPathsUpTo(n - 1), dot \in KeyDots, part \in KeyParts}

\* What stands around the key path: a pair, nothing, two pairs, a pair and
\* a comma, a table header.
KeyPathTexts ==
  {path \o Text(<<" ", "=", " ", "1">>) : path \in KeyPathsUpTo(MaxParts)}
    \cup KeyPathsUpTo(MaxParts)
    \cup {path \o Text(<<" ", "=", " ", "1", ",", " ", "d", " ", "=", " ", "2">>) : path \in KeyPathsUpTo(MaxParts)}
    \cup {path \o Text(<<" ", "=", " ", "1", ",">>) : path \in KeyPathsUpTo(MaxParts)}
    \cup {<<LBRACKET>> \o path \o <<RBRACKET>> : path \in KeyPathsUpTo(MaxParts)}

InitJoin == InitWith(KeyPathTexts) /\ timezone = 0
SpecJoin == InitJoin /\ [][NextJoin]_vars

\* The number of characters c in a text.
CountOf(c, text) == Cardinality({i \in 1..Len(text) : text[i] = c})

\* The character that follows text[i], inline white space apart; NoChar at
\* the end of the text.
FollowedBy(text, i) ==
  With({j \in (i + 1)..Len(text) : text[j] \notin Whitespace}, LAMBDA rest :
    IF rest = {} THEN NoChar
    ELSE text[CHOOSE j \in rest : \A k \in rest : j <= k])

\* A dot of the text (all dots of these texts stand in key paths) with no
\* key after it, and a text that starts with a dot.
DotWithoutKey(text) ==
  \E i \in 1..Len(text) :
    /\ text[i] = DOT
    /\ FollowedBy(text, i) \in {DOT, EQUALS, RBRACKET, NoChar}
StartsWithDot(text) == FollowedBy(text, 0) = DOT

\* C23: join fails exactly when its first instance fails; a list it
\* returns has one element more than separators were read, so at least
\* one; a separator with no instance after it gives the error "Invalid
\* token after" the separator, and parse gives an error for a key path
\* with an empty part or a dot at its end.
JoinCommits ==
  /\ pc \in DOMAIN Joins =>
       /\ (parsed.st = "fail") <=> (Run(Joins[pc].parser, source, 0).st = "fail")
       /\ parsed.st = "ok" =>
            /\ Len(parsed.body.v) >= 1
            /\ Len(parsed.body.v)
                 = 1 + CountOf(Joins[pc].separator[1], SubSeq(source, 1, position))
  /\ (pc = "DottedKey" /\ DotWithoutKey(source) /\ ~StartsWithDot(source)
        /\ FollowedBy(source, 0) # LBRACKET) =>
       /\ parsed.st = "throw"
       /\ parsed.err.msg = "Invalid token after"
       /\ parsed.err.arg = <<DOT>>
  /\ (pc = "Pairs" /\ ~DotWithoutKey(source)
        /\ FollowedBy(source, 0) \notin {DOT, EQUALS, LBRACKET, NoChar}
        /\ source[Len(source)] = COMMA) =>
       /\ parsed.st = "throw"
       /\ parsed.err.msg = "Invalid token after"
       /\ parsed.err.arg = <<COMMA>>
  /\ (pc = "parse" /\ (DotWithoutKey(source) \/ StartsWithDot(source))) =>
       outcome.kind = "TOMLParseError"

\* The dotted key a. "b" ..., with nothing between its last two dots.
EmptyPartRejected ==
  /\ pc = "DottedKey"
  /\ source = Text(<<"a", ".", "\"", "b", "\"", ".">>)
  /\ parsed.st = "throw"
  /\ parsed.err.msg = "Invalid token after"


(***************************************************************************)
(* Pairs with and without a key, an equals sign and a value.               *)
(***************************************************************************)

\* Keys that DottedKey matches, with their segments.
KvKeys ==
  { [text |-> Text(<<"a">>), path |-> <<Text(<<"a">>)>>],
    [text |-> Text(<<"\"", "b", " ", "c", "\"">>), path |-> <<Text(<<"b", " ", "c">>)>>],
    [text |-> Text(<<"a", ".", "b">>), path |-> <<Text(<<"a">>), Text(<<"b">>)>>],
    [text |-> Text(<<"a", " ", ".", " ", "\"", "c", "\"">>), path |-> <<Text(<<"a">>), Text(<<"c">>)>>] }
\* What DottedKey does not match.
KvNoKeys == { <<>>, Text(<<"@">>), Text(<<"=", " ">>) }
KvEquals == { Text(<<" ", "=", " ">>), Text(<<"=">>), Text(<<" ", "=">>) }
KvNoEquals == { <<>>, Text(<<" ">>), Text(<<" ", ":", " ">>) }
\* Texts that Value matches, texts that it does not match, and texts at
\* which it throws.
KvValues ==
  { Text(<<"1">>),
    Text(<<"0">>),
    Text(<<"\"", "s", "\"">>),
    Text(<<"\"", "\"">>),
    Text(<<"[", "1", "]">>),
    Text(<<"{", "}">>),
    Text(<<"f", "a", "l", "s", "e">>) }
KvNoValues == { <<>>, Text(<<"@">>), <<LF>> \o Text(<<"1">>), Text(<<"]">>) }
KvBrokenValues == { Text(<<"\"", "u">>), Text(<<"[", "1">>) }

\* The pairs: the text, whether it has a key, an equals sign after the
\* key, and which kind of value after the equals sign.
KvCases ==
  {[text |-> key \o eq \o value, key |-> FALSE, path |-> <<>>, eq |-> TRUE,
    value |-> value, kind |-> "ok"] :
     key \in KvNoKeys, eq \in KvEquals, value \in KvValues}
    \cup {[text |-> key.text \o eq \o value, key |-> TRUE, path |-> key.path,
           eq |-> FALSE, value |-> value, kind |-> "ok"] :
            key \in KvKeys, eq \in KvNoEquals, value \in KvValues \cup {<<>>}}
    \cup {[text |-> key.text \o eq \o value, key |-> TRUE, path |-> key.path,
           eq |-> TRUE, value |-> value, kind |-> "ok"] :
            key \in KvKeys, eq \in KvEquals, value \in KvValues}
    \cup {[text |-> key.text \o eq \o value, key |-> TRUE, path |-> key.path,
           eq |-> TRUE, value |-> value, kind |-> "none"] :
            key \in KvKeys, eq \in KvEquals, value \in KvNoValues}
    \cup {[text |-> key.text \o eq \o value, key |-> TRUE, path |-> key.path,
           eq |-> TRUE, value |-> value, kind |-> "broken"] :
            key \in KvKeys, eq \in KvEquals, value \in KvBrokenValues}

InitKv == InitWith({one.text : one \in KvCases}) /\ timezone = 0
SpecKv == InitKv /\ [][NextPair]_vars

\* C24: Pair fails only where there is no key; after a key, a missing
\* equals sign is an error and a missing or unrecognizable value is an
\* error; a pair that is returned holds the value at the end of its key
\* path.
KvCommits ==
  \A one \in KvCases :
    (pc = "Pair" /\ source = one.text) =>
      /\ parsed.st = "fail" <=> ~one.key
      /\ (one.key /\ ~one.eq) =>
           /\ parsed.st = "throw"
           /\ parsed.err.msg = "key/value pair doesn't have"
      /\ (one.key /\ one.eq /\ one.kind = "none") =>
           /\ parsed.st = "throw"
           /\ parsed.err.msg = "Value of key/value pair is invalid data format"
      /\ (one.key /\ one.eq /\ one.kind = "broken") => parsed.st = "throw"
      /\ (one.key /\ one.eq /\ one.kind = "ok") =>
           /\ parsed.st = "ok"
           /\ Leaf(parsed.body, one.path) = Run(Value, one.value, 0).body
           /\ Leaf(parsed.body, one.path) # Undefined

\* The pair a . "c" = with nothing after the equals sign is an error.
ValueMissing ==
  /\ pc = "Pair"
  /\ source = Text(<<"a", " ", ".", " ", "\"", "c", "\"", " ", "=">>)
  /\ parsed.st = "throw"
  /\ parsed.err.msg = "Value of key/value pair is invalid data format"


(***************************************************************************)
(* Declarations after what is already in the document.                     *)
(***************************************************************************)

\* What comes before the declaration, and what a is after it: absent, a
\* scalar, a sequence of scalars (or of nothing), a sequence of mappings,
\* or a mapping.
AssignPrefixes ==
  { [text |-> <<>>, a |-> "absent"],
    [text |-> Text(<<"z", " ", "=", " ", "1">>), a |-> "absent"],
    [text |-> Text(<<"z", ".", "y", " ", "=", " ", "[", "1", "]">>), a |-> "absent"],
    [text |-> Text(<<"[", "z", "]">>) \o <<LF>> \o Text(<<"x", " ", "=", " ", "1">>), a |-> "absent"],
    [text |-> Text(<<"[", "[", "z", "]", "]">>) \o <<LF>> \o Text(<<"x", " ", "=", " ", "1">>), a |-> "absent"],
    [text |-> Text(<<"a", " ", "=", " ", "1">>), a |-> "scalar"],
    [text |-> Text(<<"a", " ", "=", " ", "\"", "s", "\"">>), a |-> "scalar"],
    [text |-> Text(<<"a", " ", "=", " ", "t", "r", "u", "e">>), a |-> "scalar"],
    [text |-> Text(<<"a", " ", "=", " ", "1", "9", "7", "9", "-", "0", "5", "-", "2", "7">>), a |-> "scalar"],
    [text |-> Text(<<"a", " ", "=", " ", "[", "1", ",", "2", "]">>), a |-> "scalars"],
    [text |-> Text(<<"a", " ", "=", " ", "[", "]">>), a |-> "scalars"],
    [text |-> Text(<<"a", " ", "=", " ", "[", "{", "x", " ", "=", " ", "1", "}", "]">>), a |-> "tables"],
    [text |-> Text(<<"[", "[", "a", "]", "]">>) \o <<LF>> \o Text(<<"x", " ", "=", " ", "1">>), a |-> "tables"],
    [text |-> Text(<<"[", "[", "a", "]", "]">>) \o <<LF>> \o Text(<<"[", "a", ".", "b", "]">>), a |-> "tables"],
    [text |-> Text(<<"a", " ", "=", " ", "{", "x", " ", "=", " ", "1", "}">>), a |-> "mapping"],
    [text |-> Text(<<"a", ".", "b", " ", "=", " ", "1">>), a |-> "mapping"],
    [text |-> Text(<<"[", "a", "]">>) \o <<LF>> \o Text(<<"x", " ", "=", " ", "1">>), a |-> "mapping"],
    [text |-> Text(<<"[", "a", ".", "b", "]">>) \o <<LF>> \o Text(<<"x", " ", "=", " ", "1">>), a |-> "mapping"],
    [text |-> Text(<<"a", ".", "b", ".", "c", " ", "=", " ", "1">>), a |-> "mapping"] }

\* The declarations: a header of one to three keys.
AssignHeaders ==
  { [text |-> Text(<<"[", "a", "]">>), type |-> "Table", key |-> <<Text(<<"a">>)>>],
    [text |-> Text(<<"[", "a", ".", "b", "]">>), type |-> "Table", key |-> <<Text(<<"a">>), Text(<<"b">>)>>],
    [text |-> Text(<<"[", "a", ".", "b", ".", "c", "]">>), type |-> "Table", key |-> <<Text(<<"a">>), Text(<<"b">>), Text(<<"c">>)>>],
    [text |-> Text(<<"[", "[", "a", "]", "]">>), type |-> "TableArray", key |-> <<Text(<<"a">>)>>],
    [text |-> Text(<<"[", "[", "a", ".", "b", "]", "]">>), type |-> "TableArray", key |-> <<Text(<<"a">>), Text(<<"b">>)>>],
    [text |-> Text(<<"[", "[", "a", ".", "b", ".", "c", "]", "]">>), type |-> "TableArray", key |-> <<Text(<<"a">>), Text(<<"b">>), Text(<<"c">>)>>] }

\* What follows the header.
AssignBodies == { <<>>, Text(<<"c", " ", "=", " ", "1">>) }

AssignCases ==
  {[text |-> (IF prefix.text = <<>> THEN <<>> ELSE prefix.text \o <<LF>>)
               \o head.text \o <<LF>> \o body,
    prefix |-> prefix, header |-> head, body |-> body] :
     prefix \in AssignPrefixes, head \in AssignHeaders, body \in AssignBodies}

InitAssign == InitWith({one.text : one \in AssignCases}) /\ timezone = 0
SpecAssign == InitAssign /\ [][NextFold]_vars

\* C25: a declaration whose key path goes through a scalar or a sequence
\* of scalars ends in an error.
ImpossibleAssignRaises ==
  \A one \in AssignCases :
    (/\ pc = "return"
     /\ source = one.text
     /\ one.prefix.a \in {"scalar", "scalars"}
     /\ ~(one.header.type = "TableArray" /\ Len(one.header.key) = 1)) =>
      parsed.st = "throw"

\* The mapping {k1: {k2: ... {kn: leaf}}} of the keys of a header, leaf
\* itself when there is no key.
RECURSIVE ChainOf(_, _)
ChainOf(keys, leaf) ==
  IF keys = <<>> THEN leaf
  ELSE Obj(<<[k |-> keys[1].v, v |-> ChainOf(Tail(keys), leaf)]>>)

\* The block the next turn of the for loop of Toml is about.
AssignBlock == tomlBlocks[tomlIndex + 1]

\* C26: where the first key of a Table or TableArray declaration is absent
\* from the target, the turn of the loop adds that key with single-entry
\* mappings along the rest of the key path down to the value (Table) or to
\* the one-element sequence of the value (TableArray), and leaves every
\* other key and its value as they were.
AbsentMaterialized ==
  [][(/\ pc = "blocks"
      /\ tomlIndex < Len(tomlBlocks)
      /\ AssignBlock.type \in {"Table", "TableArray"}
      /\ ~HasOwn(tomlBody, AssignBlock.key.v[1].v)) =>
       /\ pc' = "blocks"
       /\ tomlIndex' = tomlIndex + 1
       /\ Keys(tomlBody') = Append(Keys(tomlBody), AssignBlock.key.v[1].v)
       /\ \A k \in {AssignBlock.key.v[1].v} :
            Get(tomlBody', k) =
              ChainOf(Tail(AssignBlock.key.v),
                      IF AssignBlock.type = "Table" THEN AssignBlock.value
                      ELSE Arr(<<AssignBlock.value>>))
       /\ \A i \in 1..Len(tomlBody.v) : tomlBody'.v[i] = tomlBody.v[i]]_vars

\* After z.y = [1], the header [[a.b.c]] with c = 1 under it has made
\* a.b.c the sequence of one mapping.
PathMaterialized ==
  /\ pc = "blocks"
  /\ tomlIndex = 2
  /\ source = Text(<<"z", ".", "y", " ", "=", " ", "[", "1", "]">>) \o <<LF>> \o Text(<<"[", "[", "a", ".", "b", ".", "c", "]", "]">>) \o <<LF>> \o Text(<<"c", " ", "=", " ", "1">>)
  /\ Leaf(tomlBody, <<Text(<<"a">>), Text(<<"b">>), Text(<<"c">>)>>)
       = Arr(<<Obj(<<[k |-> Text(<<"c">>), v |-> Num(1, 0)]>>)>>)
  /\ Leaf(tomlBody, <<Text(<<"z">>), Text(<<"y">>)>>) = Arr(<<Num(1, 0)>>)

\* What a key path resolves to in the body: through mappings, and through
\* the last element of a sequence.
RECURSIVE Resolve(_, _)
Resolve(value, keys) ==
  IF keys = <<>> THEN value
  ELSE IF value.t = "object" THEN Resolve(Get(value, keys[1].v), Tail(keys))
  ELSE IF value.t = "array" /\ value.v # <<>>
  THEN Resolve(value.v[Len(value.v)], keys)
  ELSE Undefined

\* C27: a Table declaration whose whole key path resolves to a mapping
\* already there, or whose single key names a sequence, ends the loop with
\* the error "Unexpected key length", and the body is left as it was.
RedeclaredRejected ==
  [][(/\ pc = "blocks"
      /\ tomlIndex < Len(tomlBlocks)
      /\ AssignBlock.type = "Table"
      /\ \/ Resolve(tomlBody, AssignBlock.key.v).t = "object"
         \/ /\ Len(AssignBlock.key.v) = 1
            /\ Get(tomlBody, AssignBlock.key.v[1].v).t = "array") =>
       /\ pc' = "return"
       /\ parsed'.st = "throw"
       /\ parsed'.err.msg = "Unexpected key length"
       /\ tomlBody' = tomlBody]_vars

\* The parent [a] after its child [a.b]: the error, with a.b still there.
ParentAfterChild ==
  /\ pc = "return"
  /\ source = Text(<<"[", "a", ".", "b", "]">>) \o <<LF>> \o Text(<<"x", " ", "=", " ", "1">>) \o <<LF>> \o Text(<<"[", "a", "]">>) \o <<LF>> \o Text(<<"c", " ", "=", " ", "1">>)
  /\ parsed.st = "throw"
  /\ parsed.err.msg = "Unexpected key length"
  /\ tomlIndex = 1
  /\ Leaf(tomlBody, <<Text(<<"a">>), Text(<<"b">>), Text(<<"x">>)>>) = Num(1, 0)


(***************************************************************************)
(* Multi-line strings before runs of quotes.                               *)
(***************************************************************************)

\* The pieces of a multi-line string with delimiter q: what is written
\* (raw) and what it stands for (val).  The escaped quote is a piece of
\* basic strings only.
ClosingPieces(q) ==
  { [raw |-> <<q>>, val |-> <<q>>],
    [raw |-> Text(<<"x">>), val |-> Text(<<"x">>)],
    [raw |-> <<LF>>, val |-> <<LF>>],
    [raw |-> <<QUOTE + APOSTROPHE - q>>, val |-> <<QUOTE + APOSTROPHE - q>>] }
    \cup (IF q = QUOTE
          THEN {[raw |-> <<BACKSLASH, QUOTE>>, val |-> <<QUOTE>>]}
          ELSE {})

\* Up to MaxContent pieces before the closing run, up to MaxQuotes quotes
\* in the run.
MaxContent == 2
MaxQuotes == 6

RECURSIVE ContentsUpTo(_, _)
ContentsUpTo(q, n) ==
  IF n = 0 THEN {<<>>}
  ELSE ContentsUpTo(q, n - 1)
         \cup {Append(c, p) : c \in ContentsUpTo(q, n - 1), p \in ClosingPieces(q)}

\* What follows the closing run.
ClosingTails ==
  { <<>>,
    <<[raw |-> Text(<<"x">>), val |-> Text(<<"x">>)]>>,
    <<[raw |-> <<LF>>, val |-> <<LF>>]>> }

RECURSIVE RawOf(_)
RawOf(pieces) ==
  IF pieces = <<>> THEN <<>> ELSE pieces[1].raw \o RawOf(Tail(pieces))

RECURSIVE ValOf(_)
ValOf(pieces) ==
  IF pieces = <<>> THEN <<>> ELSE pieces[1].val \o ValOf(Tail(pieces))

\* The strings with delimiter q: the pieces after the opening delimiter,
\* and the text.
ClosingCasesOf(fn, q) ==
  { [fn |-> fn,
     q |-> q,
     pieces |-> content \o [i \in 1..n |-> [raw |-> <<q>>, val |-> <<q>>]]
                  \o tail,
     text |-> <<q, q, q>> \o RawOf(content) \o [i \in 1..n |-> q]
                \o RawOf(tail)] :
      content \in ContentsUpTo(q, MaxContent),
      n \in 0..MaxQuotes,
      tail \in ClosingTails }

ClosingCases ==
  ClosingCasesOf("MultilineBasicString", QUOTE)
    \cup ClosingCasesOf("MultilineLiteralString", APOSTROPHE)

InitClosing == InitWith({one.text : one \in ClosingCases}) /\ timezone = 0
SpecClosing == InitClosing /\ [][NextCall]_vars

\* Where three delimiter quotes in a row begin among the pieces.
Triples(pieces, q) ==
  {i \in 1..Len(pieces) - 2 :
     \A j \in i..i + 2 : pieces[j].raw = <<q>>}

\* The pieces before the first three quotes in a row, without the first
\* newline.
ContentBefore(pieces, first) ==
  IF first > 1 /\ pieces[1].raw = <<LF>>
  THEN SubSeq(pieces, 2, first - 1)
  ELSE SubSeq(pieces, 1, first - 1)

\* C28: a multi-line string ends at the first three delimiter quotes in a
\* row; a fourth quote right after them is added to the content and
\* consumed, and no further quote is: three or four quotes are consumed at
\* the end.  Without three quotes in a row the string is not closed.
ClosingQuotes ==
  \A one \in ClosingCases :
    (pc = one.fn /\ source = one.text) =>
      IF Triples(one.pieces, one.q) = {}
      THEN parsed.st = "throw"
      ELSE \E first \in Triples(one.pieces, one.q) :
             /\ \A other \in Triples(one.pieces, one.q) : first <= other
             /\ parsed.st = "ok"
             /\ \E extra \in {IF /\ first + 3 <= Len(one.pieces)
                                 /\ one.pieces[first + 3].raw = <<one.q>>
                              THEN 1 ELSE 0} :
                  /\ position
                       = 3 + Len(RawOf(SubSeq(one.pieces, 1, first - 1)))
                           + 3 + extra
                  /\ parsed.body
                       = Str(ValOf(ContentBefore(one.pieces, first))
                               \o [i \in 1..extra |-> one.q])

\* Five quotes after x: the content is x and one quote, and the fifth quote
\* is left in the source.
FifthQuoteLeft ==
  /\ pc = "MultilineBasicString"
  /\ source = Text(<<"\"", "\"", "\"", "x", "\"", "\"", "\"", "\"", "\"">>)
  /\ parsed.st = "ok"
  /\ parsed.body = Str(Text(<<"x", "\"">>))
  /\ position = 8


(***************************************************************************)
(* Inline tables and what is not one.                                      *)
(***************************************************************************)

BraceTexts ==
  { Text(<<"{", "}">>),
    Text(<<"x", "}">>),
    Text(<<" ", "x", "}">>),
    Text(<<"}", "}">>),
    Text(<<"@", "}">>),
    Text(<<"\"", "}">>),
    Text(<<"1", "}">>),
    Text(<<"=", "}">>),
    Text(<<",", "}">>),
    Text(<<"{", " ", "}">>),
    Text(<<"{", "a", " ", "=", " ", "1", "}">>),
    Text(<<" ", "{", "}">>),
    Text(<<"{", "}", "x">>),
    Text(<<"x">>),
    Text(<<"}">>),
    Text(<<"{">>),
    Text(<<"#", "}">>),
    Text(<<"{", "a", " ", "=", " ", "1">>),
    Text(<<"x", " ", "}">>),
    Text(<<"[", "}">>),
    Text(<<"{", "a", "}">>) }

InitBrace == InitWith(BraceTexts) /\ timezone = 0
SpecBrace == InitBrace /\ [][NextCall]_vars

\* C29: where InlineTable matches, the first character after the blanks is
\* an opening brace and the last character consumed is a closing brace.
InlineTableInBraces ==
  (pc = "InlineTable" /\ parsed.st = "ok") =>
    /\ \E i \in 1..Len(source) :
         /\ source[i] = LBRACE
         /\ \A j \in 1..i - 1 : source[j] \in {SPACE, TAB}
         /\ i < position
    /\ source[position] = RBRACE


(***************************************************************************)
(* Documents with and without a pair or a header.                          *)
(***************************************************************************)

\* Lines without a construct (nothing, a blank, a comment) and lines with
\* one.
MaxConstructLines == 3
ConstructLines ==
  { <<>>,
    Text(<<" ">>),
    Text(<<"#", " ", "c">>),
    Text(<<"a", " ", "=", " ", "1">>),
    Text(<<"[", "t", "]">>),
    Text(<<"[", "[", "g", "]", "]">>),
    Text(<<"_", "_", "p", "r", "o", "t", "o", "_", "_", " ", "=", " ", "1">>),
    Text(<<"\"", "_", "_", "p", "r", "o", "t", "o", "_", "_", "\"", ".", "a", " ", "=", " ", "{", "}">>) }

RECURSIVE ConstructLinesUpTo(_)
ConstructLinesUpTo(n) ==
  IF n = 0 THEN {<<>>}
  ELSE ConstructLinesUpTo(n - 1)
         \cup {Append(ls, l) : ls \in ConstructLinesUpTo(n - 1),
                               l \in ConstructLines}

InitConstruct ==
  InitWith({JoinTexts(ls, <<LF>>) : ls \in ConstructLinesUpTo(MaxConstructLines)})
SpecConstruct == InitConstruct /\ [][Next]_vars

\* C30: a mapping that parse returns has at least one key.
ParsedHasKey ==
  (pc = "parse" /\ outcome.kind = "value") => outcome.value.v # <<>>

=============================================================================
